---- MODULE Spec2Model ----
(***************************************************************************)
(* PyWebPulse: the background test worker (worker.py, TestWorker) and the  *)
(* foreground stop command, as a state machine.                            *)
(*                                                                         *)
(* The worker thread executes TestWorker.run; the foreground thread may    *)
(* call TestWorker.stop at any moment while the thread is running.  The    *)
(* only variable the two threads share is _is_running: stop writes it, run *)
(* reads it at its check points.  Each action of run below is one basic    *)
(* block of the method: it reads _is_running at most once (at its start),  *)
(* and makes at most one call to a collaborator (DNS probe, setup_driver,  *)
(* measure_load_time, the reset calls, quit) or one result emission.       *)
(* Calls to collaborators are "in flight" for a whole state (dns_probe,    *)
(* setup, measuring), so stop can arrive while they run.                   *)
(***************************************************************************)
EXTENDS Integers, Sequences, FiniteSets, TLC

\* ---------------------------------------------------------------- bounds
\* Longest URL list, largest runs_per_url, and largest test matrix
\* (len(urls) * runs_per_url) of a run.
MaxUrls == 3
MaxRuns == 3
MaxSteps == 4
\* The same cap for the runs on a session that can answer in every way.
MaxMeasureSteps == 1
\* The most results the window has received when a report is made.
MaxResults == 4
MaxLoads == 2
MaxListed == 1
MaxTiming == 2

\* No session (Python's None for self.driver).
None == 0

VARIABLES
    urls,                \* self.urls
    runs_per_url,        \* self.runs_per_url
    run_dns_benchmark,   \* self.config['run_dns_benchmark']
    wait_strategy,       \* self.wait_strategy
    timeout,             \* self.timeout (seconds)
    env,                 \* what the browser session can answer to each call
    pc,                  \* position of the worker thread inside run
    is_running,          \* self._is_running
    driver,              \* self.driver: None or the index of a session
    urlIdx,              \* index of `url` in the for loop over self.urls
    run,                 \* loop variable `run` / `run_num_fail` (0-based)
    current_step,        \* local current_step of run
    total_steps,         \* local total_steps of run
    setup_error,         \* the exception caught as setup_error
    measurement_result,  \* local measurement_result of run
    mpc,                 \* position inside measure_load_time ("" outside a call)
    results,             \* local `results` of measure_load_time
    start_time,          \* local start_time of measure_load_time
    exc,                 \* the exception raised inside measure_load_time's try
    waits,               \* the session calls of the current measure_load_time call
    clock,               \* time.perf_counter(), in ticks
    results_data,        \* the window's self.results_data
    export_enabled,      \* the window's export_button.isEnabled()
    summary,             \* what generate_summary_report returned last
    settings,            \* the window's self.settings
    exported,            \* what export_report wrote last
    url_list,            \* the window's url_list_widget
    test_worker,         \* the window's self.test_worker is set
    start_enabled,       \* start_button.isEnabled()
    stop_enabled,        \* stop_button.isEnabled()
    config_enabled,      \* set_config_enabled's last argument (Clear Results too)
    delivered,           \* how many events of the worker the window has handled
    active,              \* runs started whose finished has not been handled
    settings_file,       \* what the disk holds at SETTINGS_FILE
    loads,               \* the calls of load_settings so far
    timing_data,         \* what the navigation-timing script answered last
    setup,               \* the call of setup_driver in progress or made last
    starting,            \* start_test is between its two start() calls
    events,              \* the signals run has emitted, in emission order
    setups,              \* every setup_driver call, with its outcome
    sessions,            \* every session setup_driver returned, with its quit calls
    measured,            \* every measure_load_time call, with its session and outcome
    stoppedAt,           \* the check of run that first observed the stop request
    stopInfo             \* where the worker was when stop was first called

vars == <<urls, runs_per_url, run_dns_benchmark, wait_strategy, timeout, env,
          pc, is_running, driver, urlIdx,
          run, current_step, total_steps, setup_error, measurement_result,
          mpc, results, start_time, exc, waits, clock,
          results_data, export_enabled, summary, settings, exported, url_list,
          test_worker, start_enabled, stop_enabled, config_enabled, delivered, active,
          settings_file, loads, timing_data, setup, starting,
          events, setups, sessions, measured, stoppedAt, stopInfo>>

config == <<urls, runs_per_url, run_dns_benchmark, wait_strategy, timeout, env>>
mvars == <<mpc, results, start_time, exc, waits, clock>>
controls == <<test_worker, start_enabled, stop_enabled, config_enabled>>
disk == <<settings_file, loads>>
\* The window, and with it what only the timing extraction, the steps inside
\* setup_driver and the two start() calls of start_test change.
gui == <<results_data, export_enabled, summary, settings, exported, url_list,
         controls, delivered, active, disk, timing_data, setup, starting>>
locals == <<urlIdx, run, current_step, total_steps, setup_error, measurement_result>>
stopVars == <<is_running, stopInfo>>
calls == <<setups, sessions, measured>>

\* ----------------------------------------------------------------- events
\* One emitted signal.  URLs are numbered from 1 and url is 0 in an event that
\* carries none; msg is the status text or the error_message, and "" stands
\* for Python's None in msg and nav (navigation_timing).  `it` is the iteration of the URL loop that emitted it
\* (0 outside the loop); it is bookkeeping, not part of the payload.
Event(t, m, u, r, s, l, c, it) ==
    [type |-> t, msg |-> m, url |-> u, run |-> r, status |-> s, load |-> l,
     nav |-> "", cur |-> c, tot |-> 0, it |-> it, config |-> <<>>]

StatusEv(m, u, r, it) == Event("status", m, u, r, "", 0, 0, it)
ProgressEv(c, it) ==
    [Event("progress", "", 0, 0, "", 0, c, it) EXCEPT !.tot = total_steps]
\* Mutant of ResultEv: the result carries no configuration.
ResultEv_NoConfig(u, r, s, m, l, it) == Event("result", m, u, r, s, l, 0, it)

\* A result_ready signal; its dictionary carries self.config.copy() (worker.py
\* lines 103 and 126), self.config being the settings the window passed.
ResultEv(u, r, s, m, l, it) ==
    [Event("result", m, u, r, s, l, 0, it) EXCEPT !.config = settings]
\* A result event made of a record of measure_load_time (worker.py line 133).
MeasuredEv(u, r, rec, it) ==
    [ResultEv(u, r, rec.status, rec.error_message, rec.load_time_ms, it)
        EXCEPT !.nav = rec.navigation_timing]
FatalEv(m, u, it) == Event("fatal", m, u, 0, "", 0, 0, it)
\* A dns_results event: m is "results" for the mapping run_dns_benchmark returns
\* (the system resolver and the standard servers) and "Error" for the mapping
\* of line 52, whose only key is "Error"; cur is the mapping's number of entries.
STANDARD_DNS_SERVERS ==
    {"Google", "Cloudflare", "Quad9", "OpenDNS", "AdGuard DNS", "Comodo Secure DNS"}
DnsEntries(m) == IF m = "Error" THEN 1 ELSE 1 + Cardinality(STANDARD_DNS_SERVERS)
DnsEv(m) == Event("dns_results", m, 0, 0, "", 0, DnsEntries(m), 0)
DoneEv == Event("done", "", 0, 0, "", 0, 0, 0)

Emit(evs) == events' = events \o evs

\* The events of one type, in emission order.
OfType(t) == SelectSeq(events, LAMBDA e : e.type = t)
Results == OfType("result")

\* Number of measure_load_time calls started so far.
measureCalls == Len(measured)

\* ------------------------------------------------------ collaborator outcomes
\* What setup_driver can raise (selenium_utils.setup_driver re-raises
\* WebDriverException, wraps anything else), and run's own raise when
\* setup_driver returns None.
SetupErrors == {"WebDriverException", "setup_driver returned None unexpectedly."}

\* selenium_utils.py lines 19-23: a call of setup_driver that has not begun.
\* call numbers the worker's setup it serves, at is the position in the
\* function, driver its local (None or the session it started), quits the
\* quit calls made on that session and raised what left the function.
SetupOf(browser_name, anti_detection) ==
    [browser_name |-> browser_name, anti_detection |-> anti_detection, call |-> 0,
     at |-> "idle", driver |-> None, quits |-> 0, raised |-> ""]

\* The wait strategies the configuration offers (gui.py wait_combo), and the
\* timeouts the model draws from (the spin box allows 10..300 seconds).
WaitStrategies == {"ReadyState", "LoadEventEnd", "Combined"}
Timeouts == {10, 300}

\* A wait_strategy that is none of the three: measure_load_time takes any
\* string, and the settings file can hold one.
UnknownStrategy == "Fastest"

\* How a session call can end: it returns ("ok": for a wait, the condition was
\* observed within the timeout), or it raises TimeoutException, another
\* WebDriverException, or any other exception.
Responses == {"ok", "timeout", "webdriver", "other"}

\* How the navigation-timing script can end: a breakdown with navigationStart
\* > 0, one with navigationStart = 0, no data (a falsy value), or an exception
\* (of the script, or of reading a malformed value).
TimingResponses == {"data", "navstart0", "nodata", "raises"}

\* A session that loads the page or times out in the ready-state wait.
NominalEnv ==
    [get |-> {"ok"}, ready |-> {"ok", "timeout"}, load |-> {"ok"},
     timing |-> {"data"}, ticks |-> {1}]

\* The sessions on which every call can end in every way; the clock advances
\* by one tick during a call, or the calls are shorter than its resolution.
FullEnvs ==
    { [get |-> Responses, ready |-> Responses, load |-> Responses,
       timing |-> TimingResponses, ticks |-> {d}] : d \in {0, 1} }

\* Mutant of InitialResults: the record starts with an error_message.
InitialResults_WithMessage ==
    [status |-> "Error", error_message |-> "pending", load_time_ms |-> -1,
     navigation_timing |-> ""]

\* measure_load_time's initial `results` (selenium_utils.py lines 135-142).
InitialResults ==
    [status |-> "Error", error_message |-> "", load_time_ms |-> -1,
     navigation_timing |-> ""]

NoResult ==
    [status |-> "", error_message |-> "", load_time_ms |-> 0, navigation_timing |-> ""]

NoStop == [requested |-> FALSE, pc |-> "", results |-> 0, calls |-> 0, begun |-> 0,
           inCall |-> FALSE]

\* The URL lists.  A URL matters to run only through its position in the list
\* and through equality with other URLs, so a list of m distinct URLs (what
\* gui.add_url builds) is <<1, ..., m>>; a list that repeats a URL (possible
\* through settings.json) is <<1, 1>>.
UrlLists == { [i \in 1..m |-> i] : m \in 1..MaxUrls } \cup { <<1, 1>> }

\* --------------------------------------------------- Python and JSON values
\* A Python value of the settings or of a result: None, an int, a str, a bool
\* or a list of such values.  URL strings are numbered: the str of URL u has
\* n = u and no text.
Py(k, n, str, b) == [k |-> k, n |-> n, s |-> str, b |-> b, items |-> <<>>]
PyNone == Py("None", 0, "", FALSE)
PyInt(n) == Py("int", n, "", FALSE)
PyStr(str) == Py("str", 0, str, FALSE)
PyUrl(u) == Py("str", u, "", FALSE)
PyBool(b) == Py("bool", 0, "", b)
PyList(xs) == [Py("list", 0, "", FALSE) EXCEPT !.items = xs]

\* Mutant of JsonScalar: None is written as the text "None".
JsonScalar_NoneAsText(v) ==
    IF v.k = "None" THEN Py("string", 0, "None", FALSE)
    ELSE IF v.k = "int" THEN Py("number", v.n, "", FALSE)
    ELSE IF v.k = "str" THEN Py("string", v.n, v.s, FALSE)
    ELSE Py(IF v.b THEN "true" ELSE "false", 0, "", FALSE)

\* json.dump of a value that is not a container: null, a number, a string,
\* true or false.
JsonScalar(v) ==
    IF v.k = "None" THEN Py("null", 0, "", FALSE)
    ELSE IF v.k = "int" THEN Py("number", v.n, "", FALSE)
    ELSE IF v.k = "str" THEN Py("string", v.n, v.s, FALSE)
    ELSE Py(IF v.b THEN "true" ELSE "false", 0, "", FALSE)

\* json.dump of a value: a list becomes an array of its items.
JsonDump(v) ==
    IF v.k = "list"
    THEN [Py("array", 0, "", FALSE) EXCEPT
            !.items = [i \in DOMAIN v.items |-> JsonScalar(v.items[i])]]
    ELSE JsonScalar(v)

\* json.dump of a dict with str keys: an object with the same keys.
JsonDumpObject(d) == [key \in DOMAIN d |-> JsonDump(d[key])]

\* json.load, the other way round.
PyScalar(j) ==
    IF j.k = "null" THEN PyNone
    ELSE IF j.k = "number" THEN PyInt(j.n)
    ELSE IF j.k = "string" THEN Py("str", j.n, j.s, FALSE)
    ELSE PyBool(j.k = "true")

JsonLoad(j) ==
    IF j.k = "array"
    THEN PyList([i \in DOMAIN j.items |-> PyScalar(j.items[i])])
    ELSE PyScalar(j)

JsonLoadObject(o) == [key \in DOMAIN o |-> JsonLoad(o[key])]

\* settings_manager.py lines 6-21.
DEFAULT_SETTINGS ==
    [urls |-> PyList(<< PyUrl(1), PyUrl(2), PyUrl(3) >>),
     runs_per_url |-> PyInt(3),
     browser |-> PyStr("Chrome"),
     headless |-> PyBool(FALSE),
     timeout_seconds |-> PyInt(60),
     wait_strategy |-> PyStr("Combined"),
     anti_detection_enabled |-> PyBool(TRUE),
     export_format |-> PyStr("CSV"),
     results |-> PyList(<<>>)]

\* gui.py lines 213-220: the keys update_config_from_ui sets from the widgets.
UiKeys ==
    {"urls", "runs_per_url", "browser", "headless", "anti_detection_enabled",
     "timeout_seconds", "wait_strategy", "run_dns_benchmark"}

\* gui.py lines 211-220: update_config_from_ui on the settings `base`, the
\* widgets holding the URL list ul, runs, timeout to, strategy ws and the DNS
\* check box dns (browser, headless and anti-detection widgets are left at
\* what base gave them).
UiSettings(base, ul, runs, to, ws, dns) ==
    [k \in DOMAIN base \cup UiKeys |->
        IF k = "urls" THEN PyList([i \in DOMAIN ul |-> PyUrl(ul[i])])
        ELSE IF k = "runs_per_url" THEN PyInt(runs)
        ELSE IF k = "timeout_seconds" THEN PyInt(to)
        ELSE IF k = "wait_strategy" THEN PyStr(ws)
        ELSE IF k = "run_dns_benchmark" THEN PyBool(dns)
        ELSE base[k]]

\* What the disk holds at SETTINGS_FILE: nothing ("missing"), a file open()
\* refuses ("unreadable"), bytes that are no text ("undecodable"), text that
\* is no JSON ("malformed"), a JSON value that is no object ("value"), or a
\* JSON object ("object").
File(kind, content) == [kind |-> kind, content |-> content]

\* Settings the window has saved after the user changed every widget the
\* model follows.
CustomSettings == UiSettings(DEFAULT_SETTINGS, <<2>>, 5, 30, "ReadyState", TRUE)

\* The JSON values that are no object: null, a number, a string, true and
\* the empty array.
NonObjects ==
    { JsonDump(v) : v \in {PyNone, PyInt(42), PyStr("x"), PyBool(TRUE), PyList(<<>>)} }

\* The files load_settings can find: an object holds any of the keys of the
\* saved settings.
SettingsFiles ==
    { File(k, <<>>) : k \in {"missing", "unreadable", "undecodable", "malformed"} }
    \cup { File("value", j) : j \in NonObjects }
    \cup { File("object", [k \in keys |-> JsonDump(CustomSettings[k])]) :
             keys \in SUBSET DOMAIN CustomSettings }

\* settings_manager.py lines 48-55: the file after save_settings(st); a write
\* that fails with IOError is logged and changes nothing.
save_settings(file, st, written) ==
    IF written THEN File("object", JsonDumpObject(st)) ELSE file

\* One call of load_settings: the file before and after, the exception that
\* left the call ("" for none), the value returned and whether save_settings
\* was called.
Load(before, raised, returned, saved, after) ==
    [before |-> before, raised |-> raised, returned |-> returned, saved |-> saved,
     after |-> after]

\* Mutant of MergeDefaults: the defaults win over the file's values.
MergeDefaults_DefaultsWin(st) ==
    [key \in DOMAIN st \cup DOMAIN DEFAULT_SETTINGS |->
        IF key \in DOMAIN DEFAULT_SETTINGS THEN DEFAULT_SETTINGS[key] ELSE st[key]]

\* Lines 35-38: every default key the loaded settings lack is added with its
\* default value.
MergeDefaults(st) ==
    [key \in DOMAIN st \cup DOMAIN DEFAULT_SETTINGS |->
        IF key \in DOMAIN st THEN st[key] ELSE DEFAULT_SETTINGS[key]]

\* settings_manager.py lines 25-46: load_settings on the given file, the write
\* of save_settings (if one is made) succeeding or not.
\*   missing (27-30): the defaults are saved and returned;
\*   unreadable, malformed (32-33, 43-46): open raises IOError or json.load
\*     raises JSONDecodeError, and the defaults are returned;
\*   undecodable (33): json.load raises UnicodeDecodeError, which line 43
\*     does not catch;
\*   value (36-37): `key not in settings` or `settings[key] = value` raises
\*     TypeError on each of NonObjects, which line 43 does not catch;
\*   object (33-42): the defaults are merged in, and saved if one was missing.
LoadSettings(file, written) ==
    IF file.kind = "missing"
    THEN Load(file, "", DEFAULT_SETTINGS, TRUE,
              save_settings(file, DEFAULT_SETTINGS, written))
    ELSE IF file.kind = "undecodable"
    THEN Load(file, "UnicodeDecodeError", <<>>, FALSE, file)
    ELSE IF file.kind \in {"unreadable", "malformed"}
    THEN Load(file, "", DEFAULT_SETTINGS, FALSE, file)
    ELSE IF file.kind = "value"
    THEN Load(file, "TypeError", <<>>, FALSE, file)
    ELSE LET st == MergeDefaults(JsonLoadObject(file.content))
             updated == DOMAIN DEFAULT_SETTINGS \ DOMAIN file.content # {}
         IN Load(file, "", st, updated,
                 IF updated THEN save_settings(file, st, written) ELSE file)

\* No export yet.
NoExport == [format |-> "", rows |-> <<>>, doc |-> <<>>]

\* ------------------------------------------------------------------- Init
\* TestWorker.__init__ followed by QThread.start: the thread exists, run has
\* not executed its first statement.
\* The window when start_test has returned (gui.py lines 226, 237-257), with
\* the browser and the anti-detection setting the configuration holds.
WindowStarted(browser_name, anti_detection) ==
    /\ results_data = <<>>
    /\ export_enabled = FALSE
    /\ summary = <<>>
    /\ settings = [UiSettings(DEFAULT_SETTINGS, urls, runs_per_url, timeout,
                              wait_strategy, run_dns_benchmark)
                       EXCEPT !.browser = PyStr(browser_name),
                              !.anti_detection_enabled = PyBool(anti_detection)]
    /\ exported = NoExport
    /\ url_list = urls
    /\ test_worker = TRUE
    /\ start_enabled = FALSE
    /\ stop_enabled = TRUE
    /\ config_enabled = FALSE
    /\ delivered = 0
    /\ active = 1
    /\ settings_file = save_settings(File("missing", <<>>), settings, TRUE)
    /\ loads = <<>>
    /\ timing_data = <<>>
    /\ setup = SetupOf(browser_name, anti_detection)
    /\ starting = FALSE

\* The window with the defaults of settings_manager.py lines 13 and 18.
WindowAfterStart == WindowStarted("Chrome", TRUE)

\* TestWorker.__init__ and the locals of run (worker.py lines 19-36).
WorkerFields ==
    /\ is_running = TRUE
    /\ driver = None
    /\ urlIdx = 0
    /\ run = 0
    /\ current_step = 0
    /\ total_steps = 0
    /\ setup_error = ""
    /\ measurement_result = NoResult
    /\ mpc = ""
    /\ results = NoResult
    /\ start_time = 0
    /\ exc = ""
    /\ waits = <<>>
    /\ clock = 0
    /\ events = <<>>
    /\ setups = <<>>
    /\ sessions = <<>>
    /\ measured = <<>>
    /\ stoppedAt = ""
    /\ stopInfo = NoStop

\* A worker whose thread is about to enter run.
WorkerFresh ==
    /\ pc = "start"
    /\ WorkerFields

\* The state when start_test has created and started the worker.
WorkerInit ==
    /\ WorkerFresh
    /\ WindowAfterStart

\* A run with the default wait strategy and timeout (worker.py lines 27-28) on
\* a session that loads the page or times out.
Init ==
    /\ urls \in UrlLists
    /\ runs_per_url \in 1..MaxRuns
    /\ Len(urls) * runs_per_url <= MaxSteps
    /\ run_dns_benchmark \in BOOLEAN
    /\ wait_strategy \in {"Combined", UnknownStrategy}
    /\ timeout = 60
    /\ env = NominalEnv
    /\ WorkerInit

\* ------------------------------------------------------------ TestWorker.stop
\* What stopInfo remembers of the worker's position: the phase before the URL
\* loop, a measurement in flight, the end of run, or elsewhere in the URL loop.
\* The foreground calls stop() only while the thread is running
\* (gui.stop_test: test_worker.isRunning()), which it still is when run has
\* emitted finished and is about to return (pc = "done").
StopPoint ==
    IF pc \in {"start", "dns_probe", "dns_check", "measuring", "final", "done"}
    THEN pc ELSE "url_loop"

\* worker.py line 172: the flag is cleared (and the first request is noted).
RequestStop ==
    /\ is_running' = FALSE
    /\ stopInfo' = IF stopInfo.requested THEN stopInfo
                   ELSE [requested |-> TRUE, pc |-> StopPoint,
                         results |-> Len(Results), calls |-> measureCalls,
                         begun |-> Len(setups) + measureCalls,
                         inCall |-> pc \in {"setup", "measuring"}]

\* Lines 168-172.  The "Stopping test..." status of line 171 is emitted by the
\* calling thread; `events` is the log of what run itself emits and does not
\* record it.
Stop ==
    /\ RequestStop
    /\ UNCHANGED <<gui, config, mvars, pc, driver, locals, events, calls, stoppedAt>>

\* ------------------------------------------------------------ TestWorker.run
\* Lines 35-41: the step counters, and the DNS phase's first status.
RunBegin ==
    /\ pc = "start"
    /\ total_steps' = Len(urls) * runs_per_url
    /\ current_step' = 0
    /\ IF run_dns_benchmark
       THEN /\ Emit(<< StatusEv("Running DNS latency benchmark...", 0, 0, 0) >>)
            /\ pc' = "dns_probe"
       ELSE /\ pc' = "dns_check"
            /\ UNCHANGED events
    /\ UNCHANGED <<gui, config, mvars, stopVars, driver, urlIdx, run, setup_error,
                   measurement_result, calls, stoppedAt>>

\* Mutant of DnsProbeOk: a stop requested during the probe discards its results.
DnsProbeOk_Interrupted ==
    /\ pc = "dns_probe"
    /\ Emit(IF is_running
            THEN << DnsEv("results"), StatusEv("DNS benchmark finished.", 0, 0, 0) >>
            ELSE << >>)
    /\ pc' = "dns_check"
    /\ UNCHANGED <<gui, config, mvars, stopVars, driver, locals, calls, stoppedAt>>

\* Lines 45-47: run_dns_benchmark() returns.
DnsProbeOk ==
    /\ pc = "dns_probe"
    /\ Emit(<< DnsEv("results"), StatusEv("DNS benchmark finished.", 0, 0, 0) >>)
    /\ pc' = "dns_check"
    /\ UNCHANGED <<gui, config, mvars, stopVars, driver, locals, calls, stoppedAt>>

\* Mutant of DnsProbeRaise: a failed probe ends the run.
DnsProbeRaise_Abort ==
    /\ pc = "dns_probe"
    /\ Emit(<< StatusEv("Error during DNS benchmark", 0, 0, 0), DnsEv("Error") >>)
    /\ pc' = "final"
    /\ UNCHANGED <<gui, config, mvars, stopVars, driver, locals, calls, stoppedAt>>

\* Lines 48-52: the import or the probe raises.
DnsProbeRaise ==
    /\ pc = "dns_probe"
    /\ Emit(<< StatusEv("Error during DNS benchmark", 0, 0, 0), DnsEv("Error") >>)
    /\ pc' = "dns_check"
    /\ UNCHANGED <<gui, config, mvars, stopVars, driver, locals, calls, stoppedAt>>

\* The first check of run that observes the stop request is remembered.
Observed(check) == stoppedAt' = IF stoppedAt = "" THEN check ELSE stoppedAt

\* Mutant of DnsCheckStopped: the return of line 58 is missing, the loop follows.
DnsCheckStopped_NoReturn ==
    /\ pc = "dns_check"
    /\ ~is_running
    /\ Emit(<< StatusEv("Test stopped after DNS benchmark.", 0, 0, 0), DoneEv >>)
    /\ Observed("dns_check")
    /\ urlIdx' = 1
    /\ pc' = "url_check"
    /\ UNCHANGED <<gui, config, mvars, stopVars, driver, run, current_step, total_steps,
                   setup_error, measurement_result, calls>>

\* Lines 55-58: the stop check after the DNS phase.
DnsCheckStopped ==
    /\ pc = "dns_check"
    /\ ~is_running
    /\ Emit(<< StatusEv("Test stopped after DNS benchmark.", 0, 0, 0), DoneEv >>)
    /\ Observed("dns_check")
    /\ pc' = "done"
    /\ UNCHANGED <<gui, config, mvars, stopVars, driver, locals, calls>>

\* Lines 55, 61: not stopped, the URL loop starts.
LoopStart ==
    /\ pc = "dns_check"
    /\ is_running
    /\ Emit(<< StatusEv("Starting Browse speed tests...", 0, 0, 0) >>)
    /\ urlIdx' = 1
    /\ pc' = "url_check"
    /\ UNCHANGED <<gui, config, mvars, stopVars, driver, run, current_step, total_steps,
                   setup_error, measurement_result, calls, stoppedAt>>

\* Line 63: the for loop over self.urls is exhausted.
LoopExhausted ==
    /\ pc = "url_check"
    /\ urlIdx > Len(urls)
    /\ pc' = "final"
    /\ UNCHANGED <<gui, config, mvars, stopVars, driver, locals, events, calls, stoppedAt>>

\* Lines 64-66: the stop check before a URL.
UrlCheckStopped ==
    /\ pc = "url_check"
    /\ urlIdx <= Len(urls)
    /\ ~is_running
    /\ Emit(<< StatusEv("Test stopped by user.", 0, 0, urlIdx) >>)
    /\ Observed("url_check")
    /\ pc' = "final"
    /\ UNCHANGED <<gui, config, mvars, stopVars, driver, locals, calls>>

\* Mutant of SetupBegin: the session is set up without the check of line 64.
SetupBegin_Unchecked ==
    /\ pc = "url_check"
    /\ urlIdx <= Len(urls)
    /\ driver' = None
    /\ Emit(<< StatusEv("Initializing driver for URL", urls[urlIdx], 0, urlIdx) >>)
    /\ setups' = Append(setups, [it |-> urlIdx, outcome |-> "pending"])
    /\ pc' = "setup"
    /\ UNCHANGED <<gui, config, mvars, stopVars, locals, sessions, measured, stoppedAt>>

\* Lines 64, 69-76: not stopped; clear the reference and call setup_driver.
SetupBegin ==
    /\ pc = "url_check"
    /\ urlIdx <= Len(urls)
    /\ is_running
    /\ driver' = None
    /\ Emit(<< StatusEv("Initializing driver for URL", urls[urlIdx], 0, urlIdx) >>)
    /\ setups' = Append(setups, [it |-> urlIdx, outcome |-> "pending"])
    /\ pc' = "setup"
    /\ UNCHANGED <<gui, config, mvars, stopVars, locals, sessions, measured, stoppedAt>>

\* Lines 76-84, 111: setup_driver returned a session; the inner loop starts.
SetupOk ==
    /\ pc = "setup"
    /\ setups' = [setups EXCEPT ![Len(setups)].outcome = "ok"]
    /\ sessions' = Append(sessions, [it |-> urlIdx, quits |-> 0])
    /\ driver' = Len(sessions) + 1
    /\ Emit(<< StatusEv("Driver ready", urls[urlIdx], 0, urlIdx),
               StatusEv("Testing URL", urls[urlIdx], 0, urlIdx) >>)
    /\ run' = 0
    /\ pc' = "run_check"
    /\ UNCHANGED <<gui, config, mvars, stopVars, urlIdx, current_step, total_steps,
                   setup_error, measurement_result, measured, stoppedAt>>

\* Lines 81-82, 86-90: setup_driver raised (or returned None and run raised);
\* the error is reported as a status and as the fatal signal.
SetupFail ==
    /\ pc = "setup"
    /\ \E e \in SetupErrors :
         /\ setup_error' = e
         /\ Emit(<< StatusEv("Fatal Error initializing driver: " \o e,
                             urls[urlIdx], 0, urlIdx),
                    FatalEv("Fatal Error initializing driver: " \o e,
                            urls[urlIdx], urlIdx) >>)
    /\ setups' = [setups EXCEPT ![Len(setups)].outcome = "failed"]
    /\ run' = 0
    /\ pc' = "fail_loop"
    /\ UNCHANGED <<gui, config, mvars, stopVars, driver, urlIdx, current_step, total_steps,
                   measurement_result, sessions, measured, stoppedAt>>

\* Mutant of FailEmit: the failed run is reported without its progress step.
FailEmit_NoProgress ==
    /\ pc = "fail_loop"
    /\ run < runs_per_url
    /\ current_step' = current_step
    /\ Emit(<< ResultEv(urls[urlIdx], run + 1, "Error",
                        "Driver setup failed: " \o setup_error, -1, urlIdx) >>)
    /\ run' = run + 1
    /\ UNCHANGED <<gui, config, mvars, stopVars, pc, driver, urlIdx, total_steps,
                   setup_error, measurement_result, calls, stoppedAt>>

\* Lines 93-106: one iteration of the loop that marks every run of the URL failed.
FailEmit ==
    /\ pc = "fail_loop"
    /\ run < runs_per_url
    /\ current_step' = current_step + 1
    /\ Emit(<< ProgressEv(current_step + 1, urlIdx),
               ResultEv(urls[urlIdx], run + 1, "Error",
                        "Driver setup failed: " \o setup_error, -1, urlIdx) >>)
    /\ run' = run + 1
    /\ UNCHANGED <<gui, config, mvars, stopVars, pc, driver, urlIdx, total_steps, setup_error,
                   measurement_result, calls, stoppedAt>>

\* Mutant of FailContinue: a failed setup leaves the URL loop (break, not continue).
FailContinue_Break ==
    /\ pc = "fail_loop"
    /\ run >= runs_per_url
    /\ pc' = "final"
    /\ UNCHANGED <<gui, config, mvars, stopVars, driver, locals, events, calls, stoppedAt>>

\* Line 108: continue with the next URL.
FailContinue ==
    /\ pc = "fail_loop"
    /\ run >= runs_per_url
    /\ urlIdx' = urlIdx + 1
    /\ pc' = "url_check"
    /\ UNCHANGED <<gui, config, mvars, stopVars, driver, run, current_step, total_steps,
                   setup_error, measurement_result, events, calls, stoppedAt>>

\* Mutant of RunsExhausted: the session is not quit after the URL's runs.
RunsExhausted_NoQuit ==
    /\ pc = "run_check"
    /\ run >= runs_per_url
    /\ pc' = "after_quit"
    /\ UNCHANGED <<gui, config, mvars, stopVars, driver, locals, events, calls, stoppedAt>>

\* Line 112: the inner loop is exhausted.
RunsExhausted ==
    /\ pc = "run_check"
    /\ run >= runs_per_url
    /\ pc' = "quit"
    /\ UNCHANGED <<gui, config, mvars, stopVars, driver, locals, events, calls, stoppedAt>>

\* Mutant of RunCheckStopped: the stop leaves both loops at once, past the quit.
RunCheckStopped_SkipQuit ==
    /\ pc = "run_check"
    /\ run < runs_per_url
    /\ ~is_running
    /\ Observed("run_check")
    /\ pc' = "final"
    /\ UNCHANGED <<gui, config, mvars, stopVars, driver, locals, events, calls>>

\* Lines 113-115: the stop check before a run.
RunCheckStopped ==
    /\ pc = "run_check"
    /\ run < runs_per_url
    /\ ~is_running
    /\ Observed("run_check")
    /\ pc' = "quit"
    /\ UNCHANGED <<gui, config, mvars, stopVars, driver, locals, events, calls>>

\* Lines 113, 117-122: not stopped; progress, status, and the call of
\* measure_load_time with self.driver.
MeasureBegin ==
    /\ pc = "run_check"
    /\ run < runs_per_url
    /\ is_running
    /\ current_step' = current_step + 1
    /\ Emit(<< ProgressEv(current_step + 1, urlIdx),
               StatusEv("Running test", urls[urlIdx], run + 1, urlIdx) >>)
    /\ measured' = Append(measured, [it |-> urlIdx, run |-> run + 1,
                                     sid |-> driver, status |-> "pending"])
    /\ pc' = "measuring"
    /\ mpc' = "get"
    /\ results' = InitialResults
    /\ start_time' = clock
    /\ exc' = ""
    /\ waits' = <<>>
    /\ UNCHANGED <<gui, config, clock, stopVars, driver, urlIdx, run, total_steps, setup_error,
                   measurement_result, setups, sessions, stoppedAt>>

\* ------------------------------------------- selenium_utils.measure_load_time
\* What the worker's other variables do while measure_load_time executes.
InMeasure ==
    UNCHANGED <<gui, config, stopVars, pc, driver, locals, events, calls, stoppedAt>>

\* One call on the session: its outcome o is recorded, the clock advances.
SessionCall(call, o) ==
    /\ waits' = Append(waits, [call |-> call, out |-> o])
    /\ \E d \in env.ticks : clock' = clock + d

\* Where a call that ended with outcome o leaves control: at `next` when it
\* returned, in the except clauses of lines 205-217 when it raised.
Outcome(o, next) ==
    IF o = "ok"
    THEN /\ mpc' = next
         /\ UNCHANGED exc
    ELSE /\ mpc' = "except"
         /\ exc' = o

\* Lines 153-172: the branch the if/elif chain takes for a wait strategy.
StrategyBranch(ws) ==
    IF ws = "ReadyState" THEN "wait_ready"
    ELSE IF ws = "LoadEventEnd" THEN "wait_load"
    ELSE IF ws = "Combined" THEN "wait_ready"
    ELSE "invalid"

\* Line 207: the error_message of a timeout.
TimeoutMessage(t, ws) ==
    "Timeout after " \o ToString(t) \o " seconds waiting for page load ("
        \o ws \o " strategy)."

\* Lines 211 and 216: the error_message of the two other handlers; the text
\* of the exception itself is abstracted to "e".
WebDriverMessage == "WebDriver error: " \o "e"
UnexpectedMessage == "Unexpected error: " \o "e"

\* Line 202: navigation_timing after a failed extraction; a breakdown is
\* abstracted to "breakdown".
TimingError == "error: " \o "e"

\* Mutant of DriverGet: a navigation timeout is swallowed and the waits follow.
DriverGet_IgnoreTimeout ==
    /\ pc = "measuring"
    /\ mpc = "get"
    /\ \E o \in env.get :
         /\ SessionCall("get", o)
         /\ Outcome(IF o = "timeout" THEN "ok" ELSE o, StrategyBranch(wait_strategy))
    /\ UNCHANGED <<results, start_time>>
    /\ InMeasure

\* Lines 146-147: driver.get(url), then the WebDriverWait object.
DriverGet ==
    /\ pc = "measuring"
    /\ mpc = "get"
    /\ \E o \in env.get :
         /\ SessionCall("get", o)
         /\ Outcome(o, StrategyBranch(wait_strategy))
    /\ UNCHANGED <<results, start_time>>
    /\ InMeasure

\* Mutant of WaitReadyState: after a timeout of the first wait under Combined
\* the second wait is still started.
WaitReadyState_ThenLoad ==
    /\ pc = "measuring"
    /\ mpc = "wait_ready"
    /\ \E o \in env.ready :
         /\ SessionCall("ready", o)
         /\ IF o = "timeout" /\ wait_strategy = "Combined"
            THEN Outcome("ok", "wait_load")
            ELSE Outcome(o, IF wait_strategy = "Combined" THEN "wait_load"
                            ELSE "success")
    /\ UNCHANGED <<results, start_time>>
    /\ InMeasure

\* Lines 155 and 164: wait.until(readyState == 'complete').
WaitReadyState ==
    /\ pc = "measuring"
    /\ mpc = "wait_ready"
    /\ \E o \in env.ready :
         /\ SessionCall("ready", o)
         /\ Outcome(o, IF wait_strategy = "Combined" THEN "wait_load" ELSE "success")
    /\ UNCHANGED <<results, start_time>>
    /\ InMeasure

\* Lines 160 and 167: wait.until(loadEventEnd > 0).
WaitLoadEventEnd ==
    /\ pc = "measuring"
    /\ mpc = "wait_load"
    /\ \E o \in env.load :
         /\ SessionCall("load", o)
         /\ Outcome(o, "success")
    /\ UNCHANGED <<results, start_time>>
    /\ InMeasure

\* Lines 171-172: raise ValueError for an unknown strategy.
InvalidStrategy ==
    /\ pc = "measuring"
    /\ mpc = "invalid"
    /\ mpc' = "except"
    /\ exc' = "other"
    /\ UNCHANGED <<results, start_time, waits, clock>>
    /\ InMeasure

\* Lines 174-176: the waits returned; the load time and the Success status.
MarkSuccess ==
    /\ pc = "measuring"
    /\ mpc = "success"
    /\ results' = [results EXCEPT !.load_time_ms = clock - start_time,
                                  !.status = "Success"]
    /\ mpc' = "timing"
    /\ UNCHANGED <<start_time, exc, waits, clock>>
    /\ InMeasure

\* Mutant of GetTiming: an exception of the extraction reaches the outer
\* except clauses.
GetTiming_Propagates ==
    /\ pc = "measuring"
    /\ mpc = "timing"
    /\ \E o \in env.timing :
         /\ SessionCall("timing", o)
         /\ results' = [results EXCEPT !.navigation_timing =
                            IF o = "data" THEN "breakdown" ELSE @]
         /\ IF o = "raises"
            THEN mpc' = "except" /\ exc' = "other"
            ELSE mpc' = "return" /\ UNCHANGED exc
    /\ UNCHANGED start_time
    /\ InMeasure

\* Lines 179-202: the navigation-timing script and the inner try/except.
GetTiming ==
    /\ pc = "measuring"
    /\ mpc = "timing"
    /\ \E o \in env.timing :
         /\ SessionCall("timing", o)
         /\ results' = [results EXCEPT !.navigation_timing =
                            IF o = "data" THEN "breakdown"
                            ELSE IF o = "raises" THEN TimingError
                            ELSE @]
    /\ mpc' = "return"
    /\ UNCHANGED <<start_time, exc>>
    /\ InMeasure

\* Mutant of HandleException: the timeout message names no strategy.
HandleException_NoStrategy ==
    /\ pc = "measuring"
    /\ mpc = "except"
    /\ results' = [results EXCEPT
                     !.status = "Error",
                     !.error_message =
                         IF exc = "timeout" THEN TimeoutMessage(timeout, "")
                         ELSE IF exc = "webdriver" THEN WebDriverMessage
                         ELSE UnexpectedMessage]
    /\ mpc' = "return"
    /\ UNCHANGED <<start_time, exc, waits, clock>>
    /\ InMeasure

\* Lines 205-217: the three except clauses, in the order Python tries them.
HandleException ==
    /\ pc = "measuring"
    /\ mpc = "except"
    /\ results' = [results EXCEPT
                     !.status = "Error",
                     !.error_message =
                         IF exc = "timeout" THEN TimeoutMessage(timeout, wait_strategy)
                         ELSE IF exc = "webdriver" THEN WebDriverMessage
                         ELSE UnexpectedMessage]
    /\ mpc' = "return"
    /\ UNCHANGED <<start_time, exc, waits, clock>>
    /\ InMeasure

\* Lines 219-223: the finally clause records the time spent until the failure.
Finally(res) ==
    IF res.load_time_ms < 0 /\ res.status = "Error"
    THEN [res EXCEPT !.load_time_ms = clock - start_time]
    ELSE res

\* Mutant of MeasureReturn: the finally clause is missing.
MeasureReturn_NoFinally ==
    /\ pc = "measuring"
    /\ mpc = "return"
    /\ results' = results
    /\ measurement_result' = results
    /\ measured' = [measured EXCEPT ![Len(measured)].status = results.status]
    /\ mpc' = ""
    /\ pc' = "emit_check"
    /\ UNCHANGED <<gui, config, start_time, exc, waits, clock, stopVars, driver, urlIdx, run,
                   current_step, total_steps, setup_error, events, setups, sessions,
                   stoppedAt>>

\* Lines 219-225 and worker.py lines 122-128: the finally clause, then
\* measure_load_time returns its record to run.
MeasureReturn ==
    /\ pc = "measuring"
    /\ mpc = "return"
    /\ results' = Finally(results)
    /\ measurement_result' = Finally(results)
    /\ measured' = [measured EXCEPT ![Len(measured)].status = results.status]
    /\ mpc' = ""
    /\ pc' = "emit_check"
    /\ UNCHANGED <<gui, config, start_time, exc, waits, clock, stopVars, driver, urlIdx, run,
                   current_step, total_steps, setup_error, events, setups, sessions,
                   stoppedAt>>

\* Mutant of EmitCheckStopped: the check of line 130 is missing, the result is
\* emitted although a stop was requested.
EmitCheckStopped_NoCheck ==
    /\ pc = "emit_check"
    /\ ~is_running
    /\ pc' = "emit"
    /\ UNCHANGED <<gui, config, mvars, stopVars, driver, locals, events, calls, stoppedAt>>

\* Lines 130-132: the stop check before the result emission.
EmitCheckStopped ==
    /\ pc = "emit_check"
    /\ ~is_running
    /\ Observed("emit_check")
    /\ pc' = "quit"
    /\ UNCHANGED <<gui, config, mvars, stopVars, driver, locals, events, calls>>

\* Line 130: not stopped; the emission of line 133 follows.
EmitCheckPassed ==
    /\ pc = "emit_check"
    /\ is_running
    /\ pc' = "emit"
    /\ UNCHANGED <<gui, config, mvars, stopVars, driver, locals, events, calls, stoppedAt>>

\* Mutant of EmitResult: the result carries the 0-based loop index as run_number.
EmitResult_ZeroBasedRun ==
    /\ pc = "emit"
    /\ Emit(<< MeasuredEv(urls[urlIdx], run, measurement_result, urlIdx) >>)
    /\ pc' = "reset"
    /\ UNCHANGED <<gui, config, mvars, stopVars, driver, locals, calls, stoppedAt>>

\* Line 133: result_ready.emit(measurement_result).
EmitResult ==
    /\ pc = "emit"
    /\ Emit(<< MeasuredEv(urls[urlIdx], run + 1, measurement_result, urlIdx) >>)
    /\ pc' = "reset"
    /\ UNCHANGED <<gui, config, mvars, stopVars, driver, locals, calls, stoppedAt>>

\* Lines 136-139: the three reset calls return; next iteration of the inner loop.
ResetOk ==
    /\ pc = "reset"
    /\ run' = run + 1
    /\ pc' = "run_check"
    /\ UNCHANGED <<gui, config, mvars, stopVars, driver, urlIdx, current_step, total_steps,
                   setup_error, measurement_result, events, calls, stoppedAt>>

\* Lines 136-140: one of the reset calls raises; control is in the handler.
ResetRaise ==
    /\ pc = "reset"
    /\ pc' = "reset_failed"
    /\ UNCHANGED <<gui, config, mvars, stopVars, driver, locals, events, calls, stoppedAt>>

\* Mutant of ResetWarn: a failed reset ends the runs of the URL.
ResetWarn_Break ==
    /\ pc = "reset_failed"
    /\ run' = run + 1
    /\ pc' = "quit"
    /\ UNCHANGED <<gui, config, mvars, stopVars, driver, urlIdx, current_step, total_steps,
                   setup_error, measurement_result, events, calls, stoppedAt>>

\* Line 141: the handler logs a warning; next iteration of the inner loop.
ResetWarn ==
    /\ pc = "reset_failed"
    /\ run' = run + 1
    /\ pc' = "run_check"
    /\ UNCHANGED <<gui, config, mvars, stopVars, driver, urlIdx, current_step, total_steps,
                   setup_error, measurement_result, events, calls, stoppedAt>>

\* Lines 147-152, 156: quit() returns.  (The inner loop is entered only after
\* setup_driver returned a session, so self.driver is set at line 147.)
QuitOk ==
    /\ pc = "quit"
    /\ driver # None
    /\ sessions' = [sessions EXCEPT ![driver].quits = @ + 1]
    /\ Emit(<< StatusEv("Browser driver closed", urls[urlIdx], 0, urlIdx) >>)
    /\ driver' = None
    /\ pc' = "after_quit"
    /\ UNCHANGED <<gui, config, mvars, stopVars, locals, setups, measured, stoppedAt>>

\* Mutant of QuitFail: a failing quit() is reported with the fatal signal too.
QuitFail_Fatal ==
    /\ pc = "quit"
    /\ driver # None
    /\ sessions' = [sessions EXCEPT ![driver].quits = @ + 1]
    /\ Emit(<< StatusEv("Warning: Error quitting driver", urls[urlIdx], 0, urlIdx),
               FatalEv("Warning: Error quitting driver", urls[urlIdx], urlIdx) >>)
    /\ driver' = None
    /\ pc' = "after_quit"
    /\ UNCHANGED <<gui, config, mvars, stopVars, locals, setups, measured, stoppedAt>>

\* Lines 147-150, 153-156: quit() raises; a warning status is emitted.
QuitFail ==
    /\ pc = "quit"
    /\ driver # None
    /\ sessions' = [sessions EXCEPT ![driver].quits = @ + 1]
    /\ Emit(<< StatusEv("Warning: Error quitting driver", urls[urlIdx], 0, urlIdx) >>)
    /\ driver' = None
    /\ pc' = "after_quit"
    /\ UNCHANGED <<gui, config, mvars, stopVars, locals, setups, measured, stoppedAt>>

\* Lines 158-160: the stop check after the URL's session was closed.
AfterUrlStopped ==
    /\ pc = "after_quit"
    /\ ~is_running
    /\ Observed("after_quit")
    /\ pc' = "final"
    /\ UNCHANGED <<gui, config, mvars, stopVars, driver, locals, events, calls>>

\* Line 158, then line 63: not stopped; the next URL.
NextUrl ==
    /\ pc = "after_quit"
    /\ is_running
    /\ urlIdx' = urlIdx + 1
    /\ pc' = "url_check"
    /\ UNCHANGED <<gui, config, mvars, stopVars, driver, run, current_step, total_steps,
                   setup_error, measurement_result, events, calls, stoppedAt>>

\* Mutant of Finish: "Testing finished." is emitted without the check of line 164.
Finish_Unconditional ==
    /\ pc = "final"
    /\ Emit(<< StatusEv("Testing finished.", 0, 0, 0), DoneEv >>)
    /\ pc' = "done"
    /\ UNCHANGED <<gui, config, mvars, stopVars, driver, locals, calls, stoppedAt>>

\* Lines 164-166: "Testing finished." unless stopped, then the finished signal.
Finish ==
    /\ pc = "final"
    /\ Emit(IF is_running
            THEN << StatusEv("Testing finished.", 0, 0, 0), DoneEv >>
            ELSE << DoneEv >>)
    /\ pc' = "done"
    /\ UNCHANGED <<gui, config, mvars, stopVars, driver, locals, calls, stoppedAt>>

Next ==
    \/ Stop
    \/ RunBegin
    \/ DnsProbeOk
    \/ DnsProbeRaise
    \/ DnsCheckStopped
    \/ LoopStart
    \/ LoopExhausted
    \/ UrlCheckStopped
    \/ SetupBegin
    \/ SetupOk
    \/ SetupFail
    \/ FailEmit
    \/ FailContinue
    \/ RunsExhausted
    \/ RunCheckStopped
    \/ MeasureBegin
    \/ DriverGet
    \/ WaitReadyState
    \/ WaitLoadEventEnd
    \/ InvalidStrategy
    \/ MarkSuccess
    \/ GetTiming
    \/ HandleException
    \/ MeasureReturn
    \/ EmitCheckStopped
    \/ EmitCheckPassed
    \/ EmitResult
    \/ ResetOk
    \/ ResetRaise
    \/ ResetWarn
    \/ QuitOk
    \/ QuitFail
    \/ AfterUrlStopped
    \/ NextUrl
    \/ Finish

Spec == Init /\ [][Next]_vars

\* A run with any wait strategy and timeout on a session whose every call can
\* end in every way.
InitMeasure ==
    /\ urls \in UrlLists
    /\ runs_per_url \in 1..MaxRuns
    /\ Len(urls) * runs_per_url <= MaxMeasureSteps
    /\ run_dns_benchmark \in BOOLEAN
    /\ wait_strategy \in WaitStrategies \cup {UnknownStrategy}
    /\ timeout \in Timeouts
    /\ env \in FullEnvs
    /\ WorkerInit

SpecMeasure == InitMeasure /\ [][Next]_vars

\* ------------------------------------------------------ the window's report
\* The results the window can receive: a Success with its load time, an Error
\* of measure_load_time with the time until the failure, or the Error the
\* worker makes up for a failed setup (load_time_ms -1).  Load times are whole
\* milliseconds here.  The first URL takes every load time; the others, which
\* are there to be kept apart from it, take the first one of each kind.
ReportUrls == {1, 2}
SuccessLoadTimes == {100, 200, 300}
ErrorLoadTimes == {-1, 400}
ReceivedFrom(u, successes, errors) ==
    { [url |-> u, status |-> "Success", load_time_ms |-> l, error_message |-> ""] :
          l \in successes }
    \cup
    { [url |-> u, status |-> "Error", load_time_ms |-> l,
       error_message |-> IF l < 0 THEN "Driver setup failed: " \o "WebDriverException"
                         ELSE TimeoutMessage(60, "Combined")] :
          l \in errors }

ReceivedResults ==
    UNION { IF u = 1 THEN ReceivedFrom(u, SuccessLoadTimes, ErrorLoadTimes)
            ELSE ReceivedFrom(u, {100}, {-1}) : u \in ReportUrls }

RECURSIVE Sum(_)
Sum(xs) == IF xs = <<>> THEN 0 ELSE Head(xs) + Sum(Tail(xs))

\* min() and max() of a non-empty list.
RECURSIVE Min(_)
Min(xs) ==
    IF Len(xs) = 1 THEN xs[1]
    ELSE LET m == Min(Tail(xs)) IN IF Head(xs) < m THEN Head(xs) ELSE m

RECURSIVE Max(_)
Max(xs) ==
    IF Len(xs) = 1 THEN xs[1]
    ELSE LET m == Max(Tail(xs)) IN IF Head(xs) > m THEN Head(xs) ELSE m

\* sorted(): insertion into a sorted list, then the sort.
RECURSIVE Insert(_, _)
Insert(x, xs) ==
    IF xs = <<>> THEN <<x>>
    ELSE IF x <= Head(xs) THEN <<x>> \o xs
    ELSE <<Head(xs)>> \o Insert(x, Tail(xs))

RECURSIVE Sorted(_)
Sorted(xs) == IF xs = <<>> THEN <<>> ELSE Insert(Head(xs), Sorted(Tail(xs)))

\* floor(a * b / c) for a, b >= 0 and c > 0, without forming a * b.
FloorMulDiv(a, b, c) == a * (b \div c) + (a * (b % c)) \div c

\* The largest r in lo..hi with r * r <= n (lo * lo <= n < (hi + 1) * (hi + 1)).
RECURSIVE ISqrtIn(_, _, _)
ISqrtIn(n, lo, hi) ==
    IF lo = hi THEN lo
    ELSE LET mid == (lo + hi + 1) \div 2
         IN IF mid * mid <= n THEN ISqrtIn(n, mid, hi) ELSE ISqrtIn(n, lo, mid - 1)

ISqrt(n) == ISqrtIn(n, 0, 46340)

\* round(num / den * 100): Python's round(x, 2), in hundredths; a tie goes to
\* the even neighbour.
Round2(num, den) ==
    LET q == (100 * num) \div den
        r == (100 * num) % den
    IN IF 2 * r < den THEN q
       ELSE IF 2 * r > den THEN q + 1
       ELSE IF q % 2 = 0 THEN q ELSE q + 1

\* n * n times the sum of the squared deviations from the mean
\* (statistics._ss, exact): the sum of (n * x - sum)^2.
RECURSIVE ScaledSS(_, _, _)
ScaledSS(xs, n, total) ==
    IF xs = <<>> THEN 0
    ELSE (n * Head(xs) - total) * (n * Head(xs) - total) + ScaledSS(Tail(xs), n, total)

\* round(sqrt(ss / divisor), 2) in hundredths, ss being ScaledSS / n^2: the
\* h with (2h - 1)^2 <= 40000 * ss / divisor < (2h + 1)^2.
RootOfVariance2(xs, divisor) ==
    LET n == Len(xs)
        q == FloorMulDiv(40000, ScaledSS(xs, n, Sum(xs)), n * n * divisor)
    IN (ISqrt(q) + 1) \div 2

\* round(statistics.mean(load_times), 2), in hundredths.
Mean2(xs) == Round2(Sum(xs), Len(xs))

\* round(statistics.median(load_times), 2), in hundredths.
Median2(xs) ==
    LET n == Len(xs)
        srt == Sorted(xs)
    IN IF n % 2 = 1 THEN 100 * srt[(n \div 2) + 1]
       ELSE Round2(srt[n \div 2] + srt[(n \div 2) + 1], 2)

\* Mutant of Stdev2: the population standard deviation (divisor n).
Stdev2_Population(xs) == RootOfVariance2(xs, Len(xs))

\* round(statistics.stdev(load_times), 2), in hundredths: the sample standard
\* deviation (divisor n - 1).
Stdev2(xs) == RootOfVariance2(xs, Len(xs) - 1)

LoadTimesOf(rs) == [i \in DOMAIN rs |-> rs[i].load_time_ms]

\* dict.get(key, default).
Get(rec, key, default) == IF key \in DOMAIN rec THEN rec[key] ELSE default

\* Mutant of ErrorMessages: a message is listed once, however many results
\* carry it.
RECURSIVE ErrorMessages_Distinct(_)
ErrorMessages_Distinct(url_errors) ==
    IF url_errors = <<>> THEN <<>>
    ELSE LET n == Len(url_errors)
             before == ErrorMessages_Distinct(SubSeq(url_errors, 1, n - 1))
             m == Get(url_errors[n], "error_message", "Unknown Error")
         IN IF \E i \in DOMAIN before : before[i] = m THEN before
            ELSE Append(before, m)

\* Lines 413 and 425: the error_message of every Error result, 'Unknown Error'
\* for a result without that key.
ErrorMessages(url_errors) ==
    [i \in DOMAIN url_errors |-> Get(url_errors[i], "error_message", "Unknown Error")]

\* Mutant of NoSuccessSummary: the error messages are left out.
NoSuccessSummary_NoMessages(url, url_errors) ==
    [url |-> url,
     num_successful_runs |-> 0,
     num_errors |-> Len(url_errors),
     avg_load_time_ms |-> "N/A",
     min_load_time_ms |-> "N/A",
     max_load_time_ms |-> "N/A",
     median_load_time_ms |-> "N/A",
     std_dev_load_time_ms |-> "N/A",
     error_messages |-> <<>>]

\* Lines 415-426: the summary of a URL without a usable Success.
NoSuccessSummary(url, url_errors) ==
    [url |-> url,
     num_successful_runs |-> 0,
     num_errors |-> Len(url_errors),
     avg_load_time_ms |-> "N/A",
     min_load_time_ms |-> "N/A",
     max_load_time_ms |-> "N/A",
     median_load_time_ms |-> "N/A",
     std_dev_load_time_ms |-> "N/A",
     error_messages |-> ErrorMessages(url_errors)]

\* Lines 398-427: the summary of one URL; the statistics are in hundredths of
\* a millisecond.
UrlSummary(data, url) ==
    LET url_results == SelectSeq(data, LAMBDA r : r.url = url /\ r.status = "Success")
        url_errors == SelectSeq(data, LAMBDA r : r.url = url /\ r.status = "Error")
        load_times == LoadTimesOf(SelectSeq(url_results, LAMBDA r : r.load_time_ms >= 0))
    IN IF load_times # <<>>
       THEN [url |-> url,
             num_successful_runs |-> Len(load_times),
             num_errors |-> Len(url_errors),
             avg_load_time_ms |-> Mean2(load_times),
             min_load_time_ms |-> 100 * Min(load_times),
             max_load_time_ms |-> 100 * Max(load_times),
             median_load_time_ms |-> Median2(load_times),
             std_dev_load_time_ms |->
                 IF Len(load_times) > 1 THEN Stdev2(load_times) ELSE 0,
             error_messages |-> ErrorMessages(url_errors)]
       ELSE NoSuccessSummary(url, url_errors)

\* Mutant of generate_summary_report: only the URLs with a Success are listed.
generate_summary_report_SuccessOnly(data) ==
    [url \in { data[i].url : i \in { j \in DOMAIN data : data[j].status = "Success" } } |->
        UrlSummary(data, url)]

\* Lines 389-427: the mapping from each URL of results_data to its summary.
generate_summary_report(data) ==
    [url \in { data[i].url : i \in DOMAIN data } |-> UrlSummary(data, url)]

\* What the report actions leave alone: the worker.
worker == <<config, mvars, stopVars, pc, driver, locals, events, calls, stoppedAt,
            timing_data, setup, starting>>

\* gui.py lines 318-321: handle_result stores a result of the running test.
handle_result ==
    /\ ~export_enabled
    /\ Len(results_data) < MaxResults
    /\ \E r \in ReceivedResults : results_data' = Append(results_data, r)
    /\ UNCHANGED <<export_enabled, summary, settings, exported, url_list, controls,
                   delivered, active, disk, worker>>

\* gui.py lines 354-365: the controls when the run has finished; the export is
\* enabled when there are results, and the worker is forgotten.
Finished ==
    /\ start_enabled' = TRUE
    /\ stop_enabled' = FALSE
    /\ export_enabled' = (Len(results_data) > 0)
    /\ config_enabled' = TRUE
    /\ test_worker' = FALSE
    /\ active' = 0

\* gui.py lines 352-365: test_finished, once the worker of the run has emitted
\* its last result.
test_finished ==
    /\ ~export_enabled
    /\ Finished
    /\ UNCHANGED <<results_data, summary, settings, exported, url_list, delivered,
                   disk, worker>>

\* str.join (line 483): the items of xs with sep between them.
RECURSIVE Join(_, _)
Join(sep, xs) ==
    IF xs = <<>> THEN ""
    ELSE IF Len(xs) = 1 THEN xs[1]
    ELSE Join(sep, SubSeq(xs, 1, Len(xs) - 1)) \o sep \o xs[Len(xs)]

\* Lines 481-484: the row DictWriter writes for one URL, its error messages
\* joined into one string.
CsvRow(url_summary) ==
    [url_summary EXCEPT !.error_messages = Join("; ", url_summary.error_messages)]

\* Line 393: the distinct URLs of the results, ascending.
SortedUrls(data) ==
    LET seen == { data[i].url : i \in DOMAIN data }
    IN CHOOSE us \in [1..Cardinality(seen) -> seen] :
          \A i, j \in DOMAIN us : i < j => us[i] < us[j]

\* Lines 466-484: the rows of the CSV export, in the order of the summary.
CsvRows(report, data) ==
    LET us == SortedUrls(data)
    IN [i \in DOMAIN us |-> CsvRow(report[us[i]])]

\* A result as the Python dict the worker emitted: "" stands for None, the
\* load time is a whole number of milliseconds (the 'config' copy and the
\* run number of worker.py lines 125-126 are not carried by the model).
ResultDict(r) ==
    [url |-> PyUrl(r.url),
     status |-> PyStr(r.status),
     load_time_ms |-> PyInt(r.load_time_ms),
     error_message |-> IF r.error_message = "" THEN PyNone ELSE PyStr(r.error_message)]

\* One URL summary as a Python dict of JSON-serialisable values.
SummaryDict(us) ==
    LET stat(v) == IF us.num_successful_runs = 0 THEN PyStr(v) ELSE PyInt(v)
    IN [url |-> PyUrl(us.url),
        num_successful_runs |-> PyInt(us.num_successful_runs),
        num_errors |-> PyInt(us.num_errors),
        avg_load_time_ms |-> stat(us.avg_load_time_ms),
        min_load_time_ms |-> stat(us.min_load_time_ms),
        max_load_time_ms |-> stat(us.max_load_time_ms),
        median_load_time_ms |-> stat(us.median_load_time_ms),
        std_dev_load_time_ms |-> stat(us.std_dev_load_time_ms),
        error_messages |->
            PyList([i \in DOMAIN us.error_messages |-> PyStr(us.error_messages[i])])]

\* Line 490: the settings without their 'results'.
TestConfiguration(st) == [k \in DOMAIN st \ {"results"} |-> st[k]]

\* Lines 487-493: the JSON document json.dump writes.
JsonExport(report, data, st) ==
    [summary_report |-> [u \in DOMAIN report |-> JsonDumpObject(SummaryDict(report[u]))],
     raw_results |-> [i \in DOMAIN data |-> JsonDumpObject(ResultDict(data[i]))],
     test_configuration |-> JsonDumpObject(TestConfiguration(st))]

\* Lines 464-493: the file written in the given format from the summary
\* report of the results.
ExportFile(format, report, data, st) ==
    [format |-> format,
     rows |-> IF format = "CSV" THEN CsvRows(report, data) ELSE <<>>,
     doc |-> IF format = "JSON" THEN JsonExport(report, data, st) ELSE <<>>]

\* Mutant of export_report: the export consumes the stored results.
export_report_Consuming ==
    /\ export_enabled
    /\ results_data # <<>>
    /\ summary' = generate_summary_report(results_data)
    /\ \E format \in {"CSV", "JSON"} :
          exported' = ExportFile(format, summary', results_data, settings)
    /\ results_data' = Tail(results_data)
    /\ UNCHANGED <<export_enabled, settings, url_list, controls, delivered, active,
                   disk, worker>>

\* Lines 430-504: Export Report with a file chosen in the dialog (a cancelled
\* dialog, line 447, and an empty results_data, line 431, change nothing).
\* The file is written in the chosen format, or the write fails and the
\* handler only reports it (lines 497-504).
export_report ==
    /\ export_enabled
    /\ results_data # <<>>
    /\ summary' = generate_summary_report(results_data)
    /\ \E format \in {"CSV", "JSON"}, written \in BOOLEAN :
          exported' = IF written
                      THEN ExportFile(format, summary', results_data, settings)
                      ELSE exported
    /\ UNCHANGED <<results_data, export_enabled, settings, url_list, controls,
                   delivered, active, disk, worker>>

\* The window after start_test (gui.py lines 237-257): no results, the export
\* disabled, a worker constructed.
InitSummary ==
    /\ urls = <<1, 2>>
    /\ runs_per_url = 1
    /\ run_dns_benchmark = FALSE
    /\ wait_strategy = "Combined"
    /\ timeout = 60
    /\ env = NominalEnv
    /\ WorkerInit

NextSummary ==
    \/ handle_result
    \/ test_finished
    \/ export_report

SpecSummary == InitSummary /\ [][NextSummary]_vars

\* ------------------------------------------------------ the settings file
\* settings_manager.py lines 25-46: one call of load_settings, as the window
\* makes at construction (gui.py line 25), on whatever the disk holds.
load_settings ==
    /\ Len(loads) < MaxLoads
    /\ \E written \in BOOLEAN :
          LET call == LoadSettings(settings_file, written)
          IN /\ loads' = Append(loads, call)
             /\ settings_file' = call.after
    /\ UNCHANGED <<results_data, export_enabled, summary, settings, exported, url_list,
                   controls, delivered, active, worker>>

\* The program before its window exists, on any settings file.
InitSettings ==
    /\ urls = <<1, 2>>
    /\ runs_per_url = 1
    /\ run_dns_benchmark = FALSE
    /\ wait_strategy = "Combined"
    /\ timeout = 60
    /\ env = NominalEnv
    /\ pc = "none"
    /\ WorkerFields
    /\ results_data = <<>>
    /\ export_enabled = TRUE
    /\ summary = <<>>
    /\ settings = DEFAULT_SETTINGS
    /\ exported = NoExport
    /\ url_list = <<>>
    /\ test_worker = FALSE
    /\ start_enabled = TRUE
    /\ stop_enabled = FALSE
    /\ config_enabled = TRUE
    /\ delivered = 0
    /\ active = 0
    /\ settings_file \in SettingsFiles
    /\ loads = <<>>
    /\ timing_data = <<>>
    /\ setup = SetupOf("Chrome", TRUE)
    /\ starting = FALSE

NextSettings == load_settings

SpecSettings == InitSettings /\ [][NextSettings]_vars

\* ------------------------------------------------------------- the window
\* The settings the window starts from: a file the user saved earlier, with
\* one URL and two runs for it.
GuiSettings == UiSettings(DEFAULT_SETTINGS, <<1>>, 2, 60, "Combined", FALSE)

\* The fields of a TestWorker and the locals of its run as WorkerFields gives
\* them, the thread at `position`: "start" for a worker that has been started,
\* "none" where the window holds no worker.
ResetWorker(position) ==
    /\ pc' = position
    /\ is_running' = TRUE
    /\ driver' = None
    /\ urlIdx' = 0
    /\ run' = 0
    /\ current_step' = 0
    /\ total_steps' = 0
    /\ setup_error' = ""
    /\ measurement_result' = NoResult
    /\ mpc' = ""
    /\ results' = NoResult
    /\ start_time' = 0
    /\ exc' = ""
    /\ waits' = <<>>
    /\ clock' = 0
    /\ events' = <<>>
    /\ setups' = <<>>
    /\ sessions' = <<>>
    /\ measured' = <<>>
    /\ stoppedAt' = ""
    /\ stopInfo' = NoStop

\* QThread.isRunning() of the window's worker: true while run executes; once
\* run has emitted finished the thread ends at a moment of its own (ended).
isRunning(ended) == pc \notin {"none", "done"} \/ (pc = "done" /\ ~ended)

\* gui.py lines 185-197: Add URL with a URL the list does not hold.
add_url ==
    /\ config_enabled
    /\ Len(url_list) < MaxListed
    /\ \E u \in 1..MaxListed :
          /\ \A i \in DOMAIN url_list : url_list[i] # u
          /\ url_list' = Append(url_list, u)
    /\ UNCHANGED <<results_data, export_enabled, summary, settings, exported, controls,
                   delivered, active, disk, worker>>

\* gui.py lines 199-205: Remove Selected URL.
remove_url ==
    /\ config_enabled
    /\ \E i \in DOMAIN url_list :
          url_list' = SubSeq(url_list, 1, i - 1) \o SubSeq(url_list, i + 1, Len(url_list))
    /\ UNCHANGED <<results_data, export_enabled, summary, settings, exported, controls,
                   delivered, active, disk, worker>>

\* gui.py lines 207-208: Clear All URLs.
clear_urls ==
    /\ config_enabled
    /\ url_list # <<>>
    /\ url_list' = <<>>
    /\ UNCHANGED <<results_data, export_enabled, summary, settings, exported, controls,
                   delivered, active, disk, worker>>

\* gui.py lines 211-222: the settings take the widgets' values (only the URL
\* list is edited here) and are saved.
update_config_from_ui(written) ==
    /\ settings' = UiSettings(settings, url_list, settings.runs_per_url.n,
                              settings.timeout_seconds.n, settings.wait_strategy.s,
                              settings.run_dns_benchmark.b)
    /\ settings_file' = save_settings(settings_file, settings', written)

\* gui.py lines 237-256 and worker.py lines 19-32: the results are cleared,
\* the controls set for a run, and a worker is created on the settings and
\* started.
CreateWorker ==
    /\ results_data' = <<>>
    /\ export_enabled' = FALSE
    /\ start_enabled' = FALSE
    /\ stop_enabled' = TRUE
    /\ config_enabled' = FALSE
    /\ test_worker' = TRUE
    /\ active' = active + 1
    /\ delivered' = 0
    /\ urls' = url_list
    /\ runs_per_url' = settings'.runs_per_url.n
    /\ timeout' = settings'.timeout_seconds.n
    /\ wait_strategy' = settings'.wait_strategy.s
    /\ run_dns_benchmark' = settings'.run_dns_benchmark.b
    /\ ResetWorker("start")
    /\ UNCHANGED <<summary, exported, url_list, loads, env, timing_data, setup>>

\* gui.py lines 237-257 taken as one step of the foreground thread: the thread
\* started at line 256 has not left run when line 257 calls start() again,
\* which finds it running and does nothing.
AcceptStart ==
    /\ CreateWorker
    /\ UNCHANGED starting

\* Lines 229-235: the two early returns of start_test, which keep only the
\* updated settings.
RefuseStart ==
    UNCHANGED <<results_data, export_enabled, summary, exported, url_list, controls,
                delivered, active, loads, worker>>

\* Mutant of start_test: the URL list is not looked at.
start_test_AnyList ==
    /\ start_enabled
    /\ \E written, ended \in BOOLEAN :
          /\ update_config_from_ui(written)
          /\ IF test_worker /\ isRunning(ended) THEN RefuseStart ELSE AcceptStart

\* gui.py lines 225-257: Start Test, which the enabled Start button invokes.
start_test ==
    /\ start_enabled
    /\ \E written, ended \in BOOLEAN :
          /\ update_config_from_ui(written)
          /\ IF url_list = <<>> \/ (test_worker /\ isRunning(ended))
             THEN RefuseStart
             ELSE AcceptStart

\* gui.py lines 259-266: Stop Test, which the enabled Stop button invokes.
stop_test ==
    /\ stop_enabled
    /\ \E ended \in BOOLEAN :
          IF test_worker /\ isRunning(ended)
          THEN /\ RequestStop
               /\ stop_enabled' = FALSE
               /\ UNCHANGED <<results_data, export_enabled, summary, settings, exported,
                              url_list, test_worker, start_enabled, config_enabled,
                              delivered, active, disk, config, mvars, pc, driver, locals,
                              events, calls, stoppedAt, timing_data, setup, starting>>
          ELSE UNCHANGED vars

\* gui.py lines 377-385: Clear Results, which the enabled button invokes
\* (set_config_enabled, line 284, disables it during a run).
clear_results_display ==
    /\ config_enabled
    /\ results_data' = <<>>
    /\ export_enabled' = FALSE
    /\ UNCHANGED <<summary, settings, exported, url_list, controls, delivered, active,
                   disk, worker>>

\* The result dictionary a result_ready signal carries.
ReceivedResult(e) ==
    [url |-> e.url, status |-> e.status, load_time_ms |-> e.load, error_message |-> e.msg]

\* The next signal of the worker the window's event loop has not dispatched.
Pending == events[delivered + 1]

\* gui.py lines 318-321: handle_result on the next signal, a result_ready.
DeliverResult ==
    /\ test_worker
    /\ delivered < Len(events)
    /\ Pending.type = "result"
    /\ results_data' = Append(results_data, ReceivedResult(Pending))
    /\ delivered' = delivered + 1
    /\ UNCHANGED <<export_enabled, summary, settings, exported, url_list, controls,
                   active, disk, worker>>

\* gui.py lines 287-316, 368-372: update_progress, update_status,
\* handle_dns_results or handle_worker_error on the next signal; they write to
\* widgets the model does not follow.
DeliverOther ==
    /\ test_worker
    /\ delivered < Len(events)
    /\ Pending.type \notin {"result", "done"}
    /\ delivered' = delivered + 1
    /\ UNCHANGED <<results_data, export_enabled, summary, settings, exported, url_list,
                   controls, active, disk, worker>>

\* gui.py lines 352-365: test_finished on the next signal, the worker's
\* finished; the worker is dropped with everything it held.
DeliverFinished ==
    /\ test_worker
    /\ delivered < Len(events)
    /\ Pending.type = "done"
    /\ start_enabled' = TRUE
    /\ stop_enabled' = FALSE
    /\ export_enabled' = (Len(results_data) > 0)
    /\ config_enabled' = TRUE
    /\ test_worker' = FALSE
    /\ active' = active - 1
    /\ delivered' = 0
    /\ ResetWorker("none")
    /\ UNCHANGED <<results_data, summary, settings, exported, url_list, disk, config,
                   timing_data, setup, starting>>

\* The window after construction (gui.py lines 23-27, 160-171): the settings
\* loaded, the URL list filled from them, no worker, Stop disabled.
InitGui ==
    /\ urls = <<>>
    /\ runs_per_url = GuiSettings.runs_per_url.n
    /\ run_dns_benchmark = FALSE
    /\ wait_strategy = "Combined"
    /\ timeout = GuiSettings.timeout_seconds.n
    /\ env = NominalEnv
    /\ pc = "none"
    /\ WorkerFields
    /\ results_data = <<>>
    /\ export_enabled = TRUE
    /\ summary = <<>>
    /\ settings = GuiSettings
    /\ exported = NoExport
    /\ url_list = <<1>>
    /\ test_worker = FALSE
    /\ start_enabled = TRUE
    /\ stop_enabled = FALSE
    /\ config_enabled = TRUE
    /\ delivered = 0
    /\ active = 0
    /\ settings_file = save_settings(File("missing", <<>>), GuiSettings, TRUE)
    /\ loads = <<>>
    /\ timing_data = <<>>
    /\ setup = SetupOf("Chrome", TRUE)
    /\ starting = FALSE

\* The steps of TestWorker.run on the settings of GuiSettings: no DNS
\* benchmark, and a wait strategy of the combo box.
RunStep ==
    \/ RunBegin
    \/ DnsCheckStopped
    \/ LoopStart
    \/ LoopExhausted
    \/ UrlCheckStopped
    \/ SetupBegin
    \/ SetupOk
    \/ SetupFail
    \/ FailEmit
    \/ FailContinue
    \/ RunsExhausted
    \/ RunCheckStopped
    \/ MeasureBegin
    \/ DriverGet
    \/ WaitReadyState
    \/ WaitLoadEventEnd
    \/ MarkSuccess
    \/ GetTiming
    \/ HandleException
    \/ MeasureReturn
    \/ EmitCheckStopped
    \/ EmitCheckPassed
    \/ EmitResult
    \/ ResetOk
    \/ ResetRaise
    \/ ResetWarn
    \/ QuitOk
    \/ QuitFail
    \/ AfterUrlStopped
    \/ NextUrl
    \/ Finish

\* Any step of TestWorker.run.
AnyRunStep ==
    \/ RunStep
    \/ DnsProbeOk
    \/ DnsProbeRaise
    \/ InvalidStrategy

\* The worker of Spec whose thread is scheduled again and again and whose
\* every call (DNS probe, setup_driver, measure_load_time, reset, quit)
\* returns or raises: a step of run that can be taken is taken.  Nothing
\* obliges the foreground to call stop.
SpecFair == Init /\ [][Next]_vars /\ WF_vars(AnyRunStep)

\* The window's handlers and its worker (Export Report, which touches neither
\* the controls nor the worker, is followed in SpecSummary).
NextGui ==
    \/ add_url
    \/ remove_url
    \/ clear_urls
    \/ start_test
    \/ stop_test
    \/ clear_results_display
    \/ DeliverResult
    \/ DeliverOther
    \/ DeliverFinished
    \/ RunStep

SpecGui == InitGui /\ [][NextGui]_vars

\* ------------------------------------------- the two start() calls
\* Everything but the worker thread's position and the foreground thread's
\* place in start_test.
OutsideStart ==
    <<results_data, export_enabled, summary, settings, exported, url_list, controls,
      delivered, active, disk, timing_data, setup, config, mvars, stopVars, driver,
      locals, events, calls, stoppedAt>>

\* gui.py lines 225-256: start_test up to the first start() of the worker.
start_test_first ==
    /\ start_enabled
    /\ ~starting
    /\ pc = "none"
    /\ \E written, ended \in BOOLEAN :
          /\ update_config_from_ui(written)
          /\ IF url_list = <<>> \/ (test_worker /\ isRunning(ended))
             THEN RefuseStart
             ELSE CreateWorker /\ starting' = TRUE

\* gui.py line 257: the second start() of the same worker.  QThread.start
\* does nothing on a thread that is running and starts a finished thread
\* again: run is entered anew on the worker's fields as they are.
start_again ==
    /\ starting
    /\ starting' = FALSE
    /\ \E ended \in BOOLEAN :
          IF isRunning(ended) THEN UNCHANGED pc ELSE pc' = "start"
    /\ UNCHANGED OutsideStart

\* A handler runs when the foreground thread is in its event loop.
InEventLoop(handler) == ~starting /\ handler

\* gui.py lines 352-365: test_finished on a finished signal of a worker whose
\* thread has not ended or has more signals queued: the controls are set and
\* the reference is dropped; the thread, which holds the worker, goes on.
test_finished_running ==
    /\ test_worker
    /\ delivered < Len(events)
    /\ Pending.type = "done"
    /\ ~(pc = "done" /\ delivered + 1 = Len(events))
    /\ start_enabled' = TRUE
    /\ stop_enabled' = FALSE
    /\ export_enabled' = (Len(results_data) > 0)
    /\ config_enabled' = TRUE
    /\ test_worker' = FALSE
    /\ active' = active - 1
    /\ delivered' = delivered + 1
    /\ UNCHANGED <<results_data, summary, settings, exported, url_list, disk, timing_data,
                   setup, starting, config, mvars, stopVars, pc, driver, locals, events,
                   calls, stoppedAt>>

\* gui.py lines 352-365: test_finished on the last signal of a thread at its
\* end.
test_finished_last ==
    /\ pc = "done"
    /\ delivered + 1 = Len(events)
    /\ DeliverFinished

\* The window's Start, Stop and Clear Results handlers, with start_test in
\* its two steps, the dispatch of the worker's signals, and the worker.  A
\* Start is followed when no worker thread exists.
NextStart ==
    \/ start_test_first
    \/ start_again
    \/ InEventLoop(stop_test)
    \/ InEventLoop(clear_results_display)
    \/ InEventLoop(DeliverResult)
    \/ InEventLoop(DeliverOther)
    \/ InEventLoop(test_finished_running)
    \/ InEventLoop(test_finished_last)
    \/ RunStep

SpecStart == InitGui /\ [][NextStart]_vars

\* ------------------------------------------------------- setup_driver
\* The browser names the model draws from: the two of the combo box
\* (gui.py line 83), one in another case, and one no branch supports.
BrowserNames == {"Chrome", "Firefox", "FIREFOX", "Edge"}

\* str.lower on the names above (selenium_utils.py lines 26, 76).
Lower(name) ==
    CASE name = "Chrome" -> "chrome"
      [] name = "Firefox" -> "firefox"
      [] name = "FIREFOX" -> "firefox"
      [] name = "Edge" -> "edge"
      [] OTHER -> name

\* The steps inside setup_driver leave everything but its own call alone.
InSetup ==
    UNCHANGED <<results_data, export_enabled, summary, settings, exported, url_list,
                controls, delivered, active, disk, timing_data, starting, config, mvars,
                stopVars, pc, driver, locals, events, calls, stoppedAt>>

\* Lines 19-26, 76, 108-109: the call begins; a name that is neither browser
\* raises ValueError inside the try.
EnterSetup ==
    /\ pc = "setup"
    /\ setup.call < Len(setups)
    /\ setup' = [setup EXCEPT !.call = Len(setups), !.driver = None, !.quits = 0,
                              !.raised = "",
                              !.at = IF Lower(setup.browser_name) \in {"chrome", "firefox"}
                                     THEN "start" ELSE "except_other"]
    /\ InSetup

\* Lines 48-55 and 97-103: the driver is installed and the browser started, or
\* whatever that raised is raised again as WebDriverException; Chrome with
\* anti-detection goes on to the script injection.
StartDriver ==
    /\ pc = "setup"
    /\ setup.at = "start"
    /\ \E o \in {"ok", "Exception"} :
         setup' = IF o = "ok"
                  THEN [setup EXCEPT !.driver = 1,
                                     !.at = IF Lower(setup.browser_name) = "chrome"
                                               /\ setup.anti_detection
                                            THEN "inject" ELSE "return"]
                  ELSE [setup EXCEPT !.at = "except_wde"]
    /\ InSetup

\* Lines 67-75: the anti-detection script is injected, or the command raises
\* a WebDriverException or something else.
InjectScript ==
    /\ pc = "setup"
    /\ setup.at = "inject"
    /\ \E o \in {"ok", "WebDriverException", "Exception"} :
         setup' = [setup EXCEPT !.at = CASE o = "ok" -> "return"
                                          [] o = "WebDriverException" -> "except_wde"
                                          [] OTHER -> "except_other"]
    /\ InSetup

\* Lines 111-118: the session is returned.
ReturnDriver ==
    /\ pc = "setup"
    /\ setup.at = "return"
    /\ setup' = [setup EXCEPT !.at = "returned"]
    /\ InSetup

\* Mutant of ExceptWebDriver: the error is raised again without the quit.
ExceptWebDriver_NoQuit ==
    /\ pc = "setup"
    /\ setup.at = "except_wde"
    /\ setup' = [setup EXCEPT !.at = "raised", !.raised = "WebDriverException"]
    /\ InSetup

\* Lines 120-124: a WebDriverException; a started session is quit and the
\* error leaves (a quit that raised selenium's WebDriverException would leave
\* in its place: the same step).
ExceptWebDriver ==
    /\ pc = "setup"
    /\ setup.at = "except_wde"
    /\ setup' = [setup EXCEPT !.at = "raised", !.raised = "WebDriverException",
                              !.quits = IF setup.driver # None THEN @ + 1 ELSE @]
    /\ InSetup

\* Lines 125-129: any other exception; a started session is quit and a
\* WebDriverException is raised from it.
ExceptOther ==
    /\ pc = "setup"
    /\ setup.at = "except_other"
    /\ setup' = [setup EXCEPT !.at = "raised", !.raised = "WebDriverException",
                              !.quits = IF setup.driver # None THEN @ + 1 ELSE @]
    /\ InSetup

\* worker.py lines 76-84: the call returned; the worker holds the session.
SetupReturned ==
    /\ setup.call = Len(setups)
    /\ setup.at = "returned"
    /\ SetupOk

\* worker.py lines 86-90: the call raised; the worker reports what it raised.
SetupRaised ==
    /\ setup.call = Len(setups)
    /\ setup.at = "raised"
    /\ SetupFail
    /\ setup_error' = setup.raised

\* A run of one repetition per URL with any browser name and either
\* anti-detection setting.
InitSetup ==
    /\ urls \in UrlLists
    /\ runs_per_url = 1
    /\ run_dns_benchmark = FALSE
    /\ wait_strategy = "Combined"
    /\ timeout = 60
    /\ env = NominalEnv
    /\ WorkerFresh
    /\ \E b \in BrowserNames, a \in BOOLEAN : WindowStarted(b, a)

\* The run up to its first session: every failed setup fails the URL's runs
\* and goes on to the next URL.
NextSetup ==
    \/ Stop
    \/ RunBegin
    \/ LoopStart
    \/ LoopExhausted
    \/ UrlCheckStopped
    \/ SetupBegin
    \/ EnterSetup
    \/ StartDriver
    \/ InjectScript
    \/ ReturnDriver
    \/ ExceptWebDriver
    \/ ExceptOther
    \/ SetupReturned
    \/ SetupRaised
    \/ FailEmit
    \/ FailContinue
    \/ Finish

SpecSetup == InitSetup /\ [][NextSetup]_vars

\* ------------------------------------------------- the timing breakdown
\* The keys of performance.timing that lines 183-198 read.
TimingKeys ==
    {"navigationStart", "fetchStart", "domainLookupStart", "domainLookupEnd",
     "connectStart", "connectEnd", "requestStart", "responseStart", "domInteractive",
     "domContentLoadedEventEnd", "domComplete", "loadEventStart", "loadEventEnd"}

\* The keys lines 187-195 copy and use in no difference.
CopiedKeys == {"fetchStart", "domContentLoadedEventEnd", "loadEventStart"}

\* What the script can answer: a non-negative number of milliseconds under
\* every key (the copied keys agree, which no line can tell).
TimingData ==
    { td \in [TimingKeys -> 0..MaxTiming] :
         \A k \in CopiedKeys : td[k] = td["fetchStart"] }

\* selenium_utils.py lines 185-199: the breakdown built from the script's
\* answer.
NavigationTiming(td) ==
    [navigation_start |-> td["navigationStart"],
     fetch_start |-> td["fetchStart"],
     dns_lookup_time |-> td["domainLookupEnd"] - td["domainLookupStart"],
     connect_time |-> td["connectEnd"] - td["connectStart"],
     ttfb |-> td["responseStart"] - td["requestStart"],
     dom_interactive |-> td["domInteractive"],
     dom_content_loaded |-> td["domContentLoadedEventEnd"],
     dom_complete |-> td["domComplete"],
     load_event_start |-> td["loadEventStart"],
     load_event_end |-> td["loadEventEnd"],
     total_load_from_nav_start |->
         IF td["loadEventEnd"] # 0 THEN td["loadEventEnd"] - td["navigationStart"] ELSE -1,
     dom_processing_time |->
         IF td["domInteractive"] # 0 /\ td["domComplete"] # 0
         THEN td["domComplete"] - td["domInteractive"] ELSE -1]

\* selenium_utils.py lines 179-199: GetTiming with the script's answer spelled
\* out; a breakdown is built when navigationStart is positive.
ExtractTiming ==
    /\ pc = "measuring"
    /\ mpc = "timing"
    /\ \E td \in TimingData :
         /\ SessionCall("timing", IF td["navigationStart"] > 0 THEN "data" ELSE "navstart0")
         /\ timing_data' = td
         /\ results' = [results EXCEPT !.navigation_timing =
                            IF td["navigationStart"] > 0 THEN NavigationTiming(td) ELSE @]
    /\ mpc' = "return"
    /\ UNCHANGED <<start_time, exc>>
    /\ UNCHANGED <<results_data, export_enabled, summary, settings, exported, url_list,
                   controls, delivered, active, disk, setup, starting, config, stopVars,
                   pc, driver, locals, events, calls, stoppedAt>>

\* One run of one URL on a session whose every call succeeds.
InitTiming ==
    /\ urls = <<1>>
    /\ runs_per_url = 1
    /\ run_dns_benchmark = FALSE
    /\ wait_strategy = "Combined"
    /\ timeout = 60
    /\ env = [get |-> {"ok"}, ready |-> {"ok"}, load |-> {"ok"}, timing |-> {"data"},
              ticks |-> {1}]
    /\ WorkerInit

\* The run up to the end of the timing extraction of its first measurement.
NextTiming ==
    \/ RunBegin
    \/ LoopStart
    \/ SetupBegin
    \/ SetupOk
    \/ MeasureBegin
    \/ DriverGet
    \/ WaitReadyState
    \/ WaitLoadEventEnd
    \/ MarkSuccess
    \/ ExtractTiming

SpecTiming == InitTiming /\ [][NextTiming]_vars

\* ------------------------------------------------------------ vocabulary
Ended == pc = "done"

\* A stop request that arrived before run emitted finished.
StopDuringRun == stopInfo.requested /\ stopInfo.pc # "done"

LastEvent == events[Len(events)]
Statuses == OfType("status")
HasStatus(m) == \E k \in DOMAIN events : events[k].type = "status" /\ events[k].msg = m

\* The result events emitted by iteration i of the URL loop.
ResultsOf(i) == SelectSeq(Results, LAMBDA e : e.it = i)

SetupFailedAt(i) == \E k \in DOMAIN setups : setups[k].it = i /\ setups[k].outcome = "failed"
SetupAttemptedAt(i) == \E k \in DOMAIN setups : setups[k].it = i

AllSetupsOk == \A k \in DOMAIN setups : setups[k].outcome # "failed"
AllMeasuredSuccess == \A k \in DOMAIN measured : measured[k].status = "Success"

\* ---------------------------------------------------------------- claims

\* C1: with every session setup succeeding, every measurement returning
\* Success and no stop request, a finished run has emitted exactly N*M result
\* events, URL-major in list order and run-minor 1..N, and exactly one done
\* event, which is the last event.
C1_AllSuccessOrder ==
    (Ended /\ ~StopDuringRun /\ AllSetupsOk /\ AllMeasuredSuccess) =>
        /\ Len(Results) = runs_per_url * Len(urls)
        /\ \A k \in 1..Len(Results) :
             /\ Results[k].url = urls[((k - 1) \div runs_per_url) + 1]
             /\ Results[k].it = ((k - 1) \div runs_per_url) + 1
             /\ Results[k].run = ((k - 1) % runs_per_url) + 1
             /\ Results[k].status = "Success"
        /\ Len(OfType("done")) = 1
        /\ LastEvent.type = "done"

C1_Witness ==
    /\ pc = "done" /\ ~stopInfo.requested /\ AllSetupsOk /\ AllMeasuredSuccess
    /\ Len(urls) = 2 /\ urls[1] # urls[2] /\ runs_per_url = 2
    /\ Len(Results) = 4

\* C2: when setup_driver fails for the URL of iteration i, that iteration emits
\* exactly runs_per_url result events, all Error with one and the same
\* error_message, numbered 1..runs_per_url, it measures nothing, and, unless a
\* stop is requested, session setup is still attempted for every later URL.
C2_SetupFailureIsolated ==
    \A i \in 1..Len(urls) :
        (SetupFailedAt(i) /\ (urlIdx > i \/ pc \in {"final", "done"})) =>
            /\ Len(ResultsOf(i)) = runs_per_url
            /\ \A k \in 1..Len(ResultsOf(i)) :
                 /\ ResultsOf(i)[k].run = k
                 /\ ResultsOf(i)[k].url = urls[i]
                 /\ ResultsOf(i)[k].status = "Error"
                 /\ ResultsOf(i)[k].msg = ResultsOf(i)[1].msg
                 /\ ResultsOf(i)[k].msg # ""
            /\ \A k \in DOMAIN measured : measured[k].it # i
            /\ (Ended /\ ~StopDuringRun) =>
                 \A j \in (i + 1)..Len(urls) : SetupAttemptedAt(j)

C2_Witness ==
    /\ pc = "done" /\ ~stopInfo.requested
    /\ Len(urls) = 2 /\ runs_per_url = 2
    /\ SetupFailedAt(1) /\ SetupAttemptedAt(2)
    /\ Len(ResultsOf(1)) = 2

\* C3 (as claimed): once stop is requested with k result events emitted, no
\* further result event is emitted.
C3_NoResultAfterStop ==
    stopInfo.requested => Len(Results) = stopInfo.results

\* C4: run emits the done event exactly once, as its last event: none before
\* it has ended, one after, and nothing follows it.
C4_DoneExactlyOnce ==
    /\ Len(OfType("done")) = (IF Ended THEN 1 ELSE 0)
    /\ Ended => LastEvent.type = "done"

C4_Witness ==
    /\ pc = "done"
    /\ stopInfo.requested /\ stopInfo.pc = "measuring"
    /\ ~AllSetupsOk
    /\ \E k \in DOMAIN Statuses : Statuses[k].msg = "Warning: Error quitting driver"

\* C5: a stop requested while measure_load_time is in flight does not interrupt
\* the call (it returns an outcome); its result is not emitted, no further
\* measurement is started, the session of the current URL is closed and done is
\* emitted.
C5_StopDuringMeasure ==
    (stopInfo.requested /\ stopInfo.pc = "measuring") =>
        /\ measureCalls = stopInfo.calls
        /\ Len(Results) = stopInfo.results
        /\ pc # "measuring" => measured[Len(measured)].status \in {"Success", "Error"}
        /\ Ended =>
             /\ sessions[measured[Len(measured)].sid].quits = 1
             /\ driver = None
             /\ LastEvent.type = "done"

C5_Witness ==
    /\ pc = "done"
    /\ stopInfo.requested /\ stopInfo.pc = "measuring"
    /\ measured[Len(measured)].status = "Success"
    /\ stopInfo.results = 1
    /\ Len(urls) = 2

\* C6: at most one session is held (returned by setup_driver and not yet
\* quit); every measurement uses the session opened in the current iteration
\* of the URL loop; when setup_driver is called, quit has been called on
\* every earlier session.
C6_OneSessionPerUrl ==
    /\ Cardinality({ k \in DOMAIN sessions : sessions[k].quits = 0 }) <= 1
    /\ \A k \in DOMAIN measured :
         /\ measured[k].sid # None
         /\ sessions[measured[k].sid].it = measured[k].it
    /\ pc = "measuring" =>
         /\ driver = measured[Len(measured)].sid
         /\ sessions[driver].it = urlIdx
         /\ sessions[driver].quits = 0
    /\ pc = "setup" => \A k \in DOMAIN sessions : sessions[k].quits >= 1

C6_Witness ==
    /\ pc = "measuring"
    /\ urlIdx = 2
    /\ Len(sessions) = 2
    /\ sessions[1].quits = 1
    /\ \E k \in DOMAIN measured : measured[k].it = 1

\* C7: quit is called exactly once on every session setup_driver returned
\* before done is emitted, whether the inner loop completed or a stop cut it
\* short; when done is emitted the worker holds no session.
C7_EverySessionQuitOnce ==
    /\ \A k \in DOMAIN sessions : sessions[k].quits <= 1
    /\ Ended =>
         /\ \A k \in DOMAIN sessions : sessions[k].quits = 1
         /\ driver = None

C7_Witness ==
    /\ pc = "done"
    /\ Len(sessions) = 2
    /\ stoppedAt = "run_check"
    /\ \A k \in DOMAIN sessions : sessions[k].quits = 1

\* C8 (as claimed): whenever a stop request cuts the URL loop short, at any of
\* its four checks, the status "Test stopped by user." is emitted before done.
C8_StoppedStatusBeforeDone ==
    (Ended /\ stoppedAt \in {"url_check", "run_check", "emit_check", "after_quit"}) =>
        HasStatus("Test stopped by user.")

\* C9: without a stop request the loop attempts every URL, in order, and the
\* last status before done is "Testing finished."; that status is never
\* emitted when the stop flag was set before the loop ended.
C9_FinishedStatus ==
    /\ (Ended /\ ~StopDuringRun) =>
         /\ Len(setups) = Len(urls)
         /\ \A k \in DOMAIN setups : setups[k].it = k
         /\ Statuses[Len(Statuses)].msg = "Testing finished."
         /\ events[Len(events) - 1] = Statuses[Len(Statuses)]
    /\ (stopInfo.requested /\ stopInfo.pc \notin {"final", "done"}) =>
         ~HasStatus("Testing finished.")

C9_Witness ==
    /\ pc = "done" /\ ~stopInfo.requested
    /\ Len(urls) = 2 /\ Len(setups) = 2
    /\ HasStatus("Testing finished.")

\* C10: a stop requested before the check that follows the DNS phase does not
\* interrupt the probe: its dns_results event is still emitted when the phase
\* is enabled; the run then ends without a session setup, a session, a
\* progress or a result event, and emits done.
C10_StopBeforeLoop ==
    (stopInfo.requested /\ stopInfo.pc \in {"start", "dns_probe", "dns_check"}) =>
        /\ setups = <<>> /\ sessions = <<>> /\ measured = <<>>
        /\ OfType("progress") = <<>> /\ Results = <<>>
        /\ Ended =>
             /\ Len(OfType("dns_results")) = (IF run_dns_benchmark THEN 1 ELSE 0)
             /\ LastEvent.type = "done"
             /\ stoppedAt = "dns_check"

C10_Witness ==
    /\ pc = "done"
    /\ stopInfo.requested /\ stopInfo.pc = "dns_probe"
    /\ Len(OfType("dns_results")) = 1

\* C11: with the DNS benchmark enabled the run emits exactly one dns_results
\* event, before any progress or result event, whether the probe returns or
\* raises; when it raises the mapping has a single entry and, absent a stop,
\* the URL loop still sets up a session for every URL and emits a result for
\* every run; with the benchmark disabled no dns_results event is emitted.
C11_DnsPhase ==
    LET dns == OfType("dns_results")
    IN /\ ~run_dns_benchmark => Len(dns) = 0
       /\ run_dns_benchmark =>
            /\ Len(dns) = (IF pc \in {"start", "dns_probe"} THEN 0 ELSE 1)
            /\ \A k \in DOMAIN events :
                 events[k].type \in {"progress", "result"} =>
                     \E j \in 1..(k - 1) : events[j].type = "dns_results"
            /\ \A k \in DOMAIN dns :
                 /\ dns[k].msg \in {"results", "Error"}
                 /\ dns[k].msg = "Error" => dns[k].cur = 1
            /\ (Ended /\ ~StopDuringRun) =>
                 /\ \A i \in 1..Len(urls) : SetupAttemptedAt(i)
                 /\ Len(Results) = Len(urls) * runs_per_url
                 /\ Len(OfType("progress")) = Len(urls) * runs_per_url

C11_Witness ==
    /\ Ended /\ ~stopInfo.requested /\ run_dns_benchmark
    /\ Len(OfType("dns_results")) = 1
    /\ OfType("dns_results")[1].msg = "Error"
    /\ Len(urls) = 2 /\ Len(Results) = 2 * runs_per_url

\* ------------------------------------------------ measure_load_time's record
\* measure_load_time has just returned measurement_result to run.
Returned == pc = "emit_check"

Called(c) == \E i \in DOMAIN waits : waits[i].call = c
Raised(c) == \E i \in DOMAIN waits : waits[i].call = c /\ waits[i].out # "ok"
TimedOut(c) == \E i \in DOMAIN waits : waits[i].call = c /\ waits[i].out = "timeout"
LastCall == waits[Len(waits)]
\* The ticks one session call takes in this run.
Tick == CHOOSE d \in env.ticks : TRUE

\* C12: measure_load_time never raises to its caller: a call that is over has
\* returned a record, and a navigation failure, a wait timeout, any other
\* exception of the session and an unknown wait_strategy all give a record
\* with status Error and a non-empty error_message.
C12_FailuresBecomeErrorRecords ==
    /\ \A k \in DOMAIN measured :
         measured[k].status = "pending" => (k = Len(measured) /\ pc = "measuring")
    /\ Returned =>
         /\ measurement_result.status \in {"Success", "Error"}
         /\ (\/ Raised("get") \/ Raised("ready") \/ Raised("load")
             \/ wait_strategy \notin WaitStrategies) =>
                /\ measurement_result.status = "Error"
                /\ measurement_result.error_message # ""

C12_Witness ==
    /\ Returned
    /\ Raised("get") /\ exc = "webdriver"
    /\ measurement_result.status = "Error"
    /\ measurement_result.error_message = WebDriverMessage

\* C13: every record measure_load_time returns has load_time_ms >= 0, never
\* the initial -1; among the emitted results -1 occurs only in the results the
\* worker synthesizes for a URL whose session setup failed.
C13_LoadTimeNonNegative ==
    /\ Returned => measurement_result.load_time_ms >= 0
    /\ \A k \in DOMAIN Results :
         Results[k].load < 0 =>
             /\ Results[k].load = -1
             /\ SetupFailedAt(Results[k].it)

C13_Witness ==
    /\ Returned
    /\ measurement_result.status = "Error"
    /\ results.load_time_ms > 0
    /\ Raised("ready")

\* C14: a timeout in a wait phase gives an Error record whose message names
\* the configured timeout and the configured strategy; under Combined a
\* timeout of the ready-state wait gives the message naming Combined and the
\* load-event-end wait is never started.
C14_TimeoutMessage ==
    (Returned /\ (TimedOut("ready") \/ TimedOut("load"))) =>
        /\ measurement_result.status = "Error"
        /\ measurement_result.error_message = TimeoutMessage(timeout, wait_strategy)
        /\ \A t \in Timeouts, ws \in WaitStrategies :
             measurement_result.error_message = TimeoutMessage(t, ws) =>
                 (t = timeout /\ ws = wait_strategy)
        /\ (wait_strategy = "Combined" /\ TimedOut("ready")) => ~Called("load")

C14_Witness ==
    /\ Returned
    /\ wait_strategy = "Combined" /\ timeout = 10
    /\ TimedOut("ready")
    /\ measurement_result.error_message = TimeoutMessage(10, "Combined")

\* C15: the record is Success only if the completion predicate of the
\* configured strategy was observed: ready state for ReadyState, load event
\* end for LoadEventEnd, and for Combined the ready state and then, in a second
\* wait started only after the first succeeded, the load event end; the
\* navigation is issued before any wait.
C15_SuccessNeedsCompletion ==
    /\ \A i \in DOMAIN waits :
         /\ (waits[i].call = "get") = (i = 1)
         /\ (i > 1) => waits[i - 1].out = "ok"
         /\ (wait_strategy = "Combined" /\ waits[i].call = "load") =>
                (i = 3 /\ waits[2] = [call |-> "ready", out |-> "ok"])
    /\ (Returned /\ measurement_result.status = "Success") =>
         /\ wait_strategy \in WaitStrategies
         /\ waits[1] = [call |-> "get", out |-> "ok"]
         /\ wait_strategy = "ReadyState" =>
                waits[2] = [call |-> "ready", out |-> "ok"]
         /\ wait_strategy = "LoadEventEnd" =>
                waits[2] = [call |-> "load", out |-> "ok"]
         /\ wait_strategy = "Combined" =>
                /\ waits[2] = [call |-> "ready", out |-> "ok"]
                /\ waits[3] = [call |-> "load", out |-> "ok"]

C15_Witness ==
    /\ Returned
    /\ measurement_result.status = "Success"
    /\ wait_strategy = "Combined"
    /\ Len(waits) = 4

\* C16: once the wait has succeeded, a failure or an absence of the timing
\* breakdown changes only navigation_timing: an error marker when the
\* extraction raises, no value when the script returns no data or a
\* navigationStart that is not positive; the status stays Success, the
\* error_message stays absent and load_time_ms stays the value measured at the
\* end of the wait.
C16_TimingFailureIsLocal ==
    (Returned /\ Called("timing")) =>
        /\ LastCall.call = "timing"
        /\ measurement_result.status = "Success"
        /\ measurement_result.error_message = ""
        /\ measurement_result.load_time_ms = Tick * (Len(waits) - 1)
        /\ measurement_result.navigation_timing =
               (IF LastCall.out = "data" THEN "breakdown"
                ELSE IF LastCall.out = "raises" THEN TimingError
                ELSE "")

C16_Witness ==
    /\ Returned
    /\ LastCall = [call |-> "timing", out |-> "raises"]
    /\ measurement_result.navigation_timing = TimingError
    /\ measurement_result.load_time_ms = 2

\* C17: every emitted result has status Success or Error, carries an
\* error_message exactly when its status is Error, and carries a
\* navigation_timing only when its status is Success.
C17_ResultShape ==
    \A k \in DOMAIN Results :
        /\ Results[k].status \in {"Success", "Error"}
        /\ (Results[k].msg # "") = (Results[k].status = "Error")
        /\ (Results[k].nav # "") => Results[k].status = "Success"

C17_Witness ==
    /\ Len(Results) = 1
    /\ Results[1].status = "Success"
    /\ Results[1].nav = "breakdown"
    /\ Results[1].msg = ""

\* ------------------------------------------------- failures around the runs
Fatals == OfType("fatal")
FatalsOf(i) == SelectSeq(Fatals, LAMBDA e : e.it = i)
Progresses == OfType("progress")

C19_ResetAndCloseFailuresContained ==
    /\ [](  (Ended /\ ~StopDuringRun) =>
              /\ Len(Results) = Len(urls) * runs_per_url
              /\ Len(Progresses) = Len(urls) * runs_per_url
              /\ \A k \in DOMAIN Results :
                   /\ Results[k].it = ((k - 1) \div runs_per_url) + 1
                   /\ Results[k].run = ((k - 1) % runs_per_url) + 1
              /\ \A k \in DOMAIN Progresses : Progresses[k].cur = k  )
    /\ [][ (pc \in {"reset", "reset_failed", "quit"} /\ pc' # pc) =>
              /\ Results' = Results
              /\ Progresses' = Progresses
              /\ pc \in {"reset", "reset_failed"} =>
                    \/ pc' = "reset_failed" /\ run' = run
                    \/ pc' = "run_check" /\ run' = run + 1
              /\ pc = "quit" => pc' = "after_quit" ]_vars

C19_Witness ==
    /\ pc = "reset_failed" /\ ~stopInfo.requested
    /\ Len(urls) = 2 /\ urlIdx = 2 /\ runs_per_url = 2 /\ run = 0
    /\ HasStatus("Warning: Error quitting driver")
    /\ Len(Results) = 3

\* ------------------------------------------------------------- the report
\* The load times of url's Success results in results_data.
SuccessTimes(url) ==
    LoadTimesOf(SelectSeq(results_data,
                          LAMBDA r : r.url = url /\ r.status = "Success"))
RECURSIVE SumSquares(_)
SumSquares(xs) == IF xs = <<>> THEN 0 ELSE Head(xs) * Head(xs) + SumSquares(Tail(xs))
Below(xs, v) == Cardinality({ i \in DOMAIN xs : xs[i] < v })
UpTo(xs, v) == Cardinality({ i \in DOMAIN xs : xs[i] <= v })
\* v is the element of rank k (from 0) of xs in ascending order.
HasRank(xs, v, k) ==
    /\ \E i \in DOMAIN xs : xs[i] = v
    /\ Below(xs, v) <= k
    /\ k < UpTo(xs, v)
Abs(x) == IF x < 0 THEN -x ELSE x
SameBag(xs, ys) ==
    /\ Len(xs) = Len(ys)
    /\ \A v \in SuccessLoadTimes : UpTo(xs, v) = UpTo(ys, v)

\* C20: for a URL with at least one Success result the report gives the mean,
\* the median, the minimum and the maximum of the load times of that URL's
\* Success results (to two decimals), and a standard deviation that is 0 for
\* exactly one Success and the sample standard deviation (divisor n - 1) for
\* two or more; Success load times 100, 200, 300 give mean 200, median 200 and
\* standard deviation 100; the load times of Error results do not contribute.
C20_SummaryStatistics ==
    \A u \in DOMAIN summary :
        LET S == SuccessTimes(u)
            n == Len(S)
            r == summary[u]
        IN n >= 1 =>
             /\ r.num_successful_runs = n
             /\ 2 * Abs(r.avg_load_time_ms * n - 100 * Sum(S)) <= n
             /\ \E v \in SuccessLoadTimes :
                  /\ HasRank(S, v, 0)
                  /\ r.min_load_time_ms = 100 * v
             /\ \E v \in SuccessLoadTimes :
                  /\ HasRank(S, v, n - 1)
                  /\ r.max_load_time_ms = 100 * v
             /\ \E a, b \in SuccessLoadTimes :
                  /\ HasRank(S, a, (n - 1) \div 2)
                  /\ HasRank(S, b, n \div 2)
                  /\ r.median_load_time_ms = 50 * (a + b)
             /\ n = 1 => r.std_dev_load_time_ms = 0
             /\ n >= 2 =>
                  LET h == r.std_dev_load_time_ms
                      \* floor(40000 * variance), the variance being the sum of
                      \* (x - mean)^2 over n - 1
                      q == FloorMulDiv(40000, n * SumSquares(S) - Sum(S) * Sum(S),
                                       n * (n - 1))
                  IN /\ h >= 0
                     /\ (h = 0 \/ (2 * h - 1) * (2 * h - 1) <= q)
                     /\ q < (2 * h + 1) * (2 * h + 1)
             /\ SameBag(S, <<100, 200, 300>>) =>
                  /\ r.avg_load_time_ms = 20000
                  /\ r.median_load_time_ms = 20000
                  /\ r.std_dev_load_time_ms = 10000

C20_Witness ==
    /\ 1 \in DOMAIN summary
    /\ SuccessTimes(1) = <<300, 100, 200>>
    /\ \E i \in DOMAIN results_data :
         /\ results_data[i].url = 1
         /\ results_data[i].status = "Error"
         /\ results_data[i].load_time_ms = 400
    /\ summary[1].std_dev_load_time_ms = 10000
    /\ summary[1].num_errors = 1

\* ---------------------------------------------------------------- progress
\* The number of result events among the first k events.
ResultsBefore(k) == Cardinality({ j \in 1..k : events[j].type = "result" })

\* C30: total_steps is len(urls) * runs_per_url; the progress events carry the
\* current values 1, 2, 3, ... and that total, never more than the total; every
\* result event follows its own progress event, so the results are never more
\* than the progress events and at most one fewer; a run that ends without a
\* stop request has (total_steps, total_steps) as its last progress event,
\* also when session setup failed for some URL.
C30_ProgressCounts ==
    /\ pc # "start" => total_steps = Len(urls) * runs_per_url
    /\ \A k \in DOMAIN Progresses :
         /\ Progresses[k].cur = k
         /\ Progresses[k].tot = Len(urls) * runs_per_url
         /\ Progresses[k].cur <= Progresses[k].tot
    /\ \A k \in DOMAIN events :
         events[k].type = "progress" =>
             ResultsBefore(k) = events[k].cur - 1
    /\ Len(Results) <= Len(Progresses)
    /\ Len(Progresses) <= Len(Results) + 1
    /\ (Ended /\ ~StopDuringRun) =>
         /\ Len(Progresses) = total_steps
         /\ Progresses[Len(Progresses)].cur = total_steps
         /\ Progresses[Len(Progresses)].tot = total_steps

C30_Witness ==
    /\ Ended /\ ~stopInfo.requested
    /\ Len(urls) = 2 /\ runs_per_url = 2
    /\ SetupFailedAt(1) /\ ~SetupFailedAt(2)
    /\ Progresses[4].cur = 4 /\ Progresses[4].tot = 4

\* The Error results of url in results_data, in the order received.
ErrorsOf(url) ==
    SelectSeq(results_data, LAMBDA r : r.url = url /\ r.status = "Error")

\* C21: for every URL of the results that has no Success result the report
\* sets the five numeric fields to 'N/A', num_successful_runs to 0 and
\* error_messages to a non-empty list.
C21_NoSuccessUnavailable ==
    \A u \in DOMAIN summary :
        SuccessTimes(u) = <<>> =>
            /\ summary[u].num_successful_runs = 0
            /\ summary[u].avg_load_time_ms = "N/A"
            /\ summary[u].median_load_time_ms = "N/A"
            /\ summary[u].min_load_time_ms = "N/A"
            /\ summary[u].max_load_time_ms = "N/A"
            /\ summary[u].std_dev_load_time_ms = "N/A"
            /\ summary[u].error_messages # <<>>

C21_Witness ==
    /\ DOMAIN summary = {1, 2}
    /\ SuccessTimes(1) = <<>> /\ Len(ErrorsOf(1)) = 2
    /\ SuccessTimes(2) # <<>>
    /\ summary[1].avg_load_time_ms = "N/A"
    /\ Len(summary[1].error_messages) = 2

\* C22: for every URL the error_messages of its summary has one entry for each
\* Error result of that URL, in the order the results were received, and the
\* entry is that result's error_message ('Unknown Error' stands in for a result
\* without one; every Error result the worker emits has one).
C22_ErrorMessagesInOrder ==
    \A u \in DOMAIN summary :
        /\ Len(summary[u].error_messages) = Len(ErrorsOf(u))
        /\ summary[u].num_errors = Len(ErrorsOf(u))
        /\ \A i \in DOMAIN ErrorsOf(u) :
             /\ summary[u].error_messages[i] = ErrorsOf(u)[i].error_message
             /\ summary[u].error_messages[i] \notin {"", "Unknown Error"}

C22_Witness ==
    /\ 1 \in DOMAIN summary
    /\ Len(ErrorsOf(1)) = 3
    /\ ErrorsOf(1)[1].load_time_ms = 400
    /\ ErrorsOf(1)[2].load_time_ms = -1
    /\ ErrorsOf(1)[3].load_time_ms = 400
    /\ summary[1].error_messages[2] # summary[1].error_messages[1]
    /\ summary[1].error_messages[3] = summary[1].error_messages[1]

\* C23: a step that produces a summary report or writes an export file (CSV or
\* JSON) leaves results_data as it was: same length, same order, same field
\* values in every result.
C23_ReportsLeaveResults ==
    [][(summary' # summary \/ exported' # exported) => results_data' = results_data]_vars

C23_Witness ==
    /\ Len(results_data) = MaxResults
    /\ exported.format = "CSV"
    /\ Len(exported.rows) = 2
    /\ summary = generate_summary_report(results_data)

Invalid(file) == file.kind \in {"unreadable", "undecodable", "malformed", "value"}

\* C28: no call of load_settings raises; on a missing or invalid file it
\* returns the full defaults; on an invalid file it does not call
\* save_settings and leaves the file as it is; on a missing file it saves the
\* defaults, which the file then holds unless the write failed.
C28_InvalidFallsBack ==
    \A i \in DOMAIN loads :
        LET c == loads[i]
        IN /\ c.raised = ""
           /\ c.before.kind = "missing" \/ Invalid(c.before) =>
                 c.returned = DEFAULT_SETTINGS
           /\ Invalid(c.before) => ~c.saved /\ c.after = c.before
           /\ c.before.kind = "missing" =>
                 /\ c.saved
                 /\ c.after \in {c.before, File("object", JsonDumpObject(DEFAULT_SETTINGS))}

IsPrefix(xs, ys) == Len(xs) <= Len(ys) /\ SubSeq(ys, 1, Len(xs)) = xs

\* The results among the signals the window has handled, in emission order.
DeliveredResults ==
    LET seen == SelectSeq(SubSeq(events, 1, delivered), LAMBDA e : e.type = "result")
    IN [i \in DOMAIN seen |-> ReceivedResult(seen[i])]

\* C25: never more than one run is active (started, its finished signal not
\* yet handled); the window holds a worker, and a worker thread exists, exactly
\* during an active run; Start is enabled exactly when no run is active, so no
\* Start can be issued during a run, and it becomes enabled again only in the
\* step that handles the run's finished signal.
C25_OneActiveRun ==
    /\ [](/\ active <= 1
          /\ test_worker <=> active = 1
          /\ pc # "none" <=> active = 1
          /\ start_enabled <=> active = 0)
    /\ [][/\ active' > active => ~test_worker /\ pc = "none"
          /\ (~start_enabled /\ start_enabled') =>
                 delivered < Len(events) /\ Pending.type = "done"]_vars

\* C26: while a worker thread exists results_data is the results received so
\* far, in arrival order, and Clear Results is disabled; a step after which
\* results_data does not begin with what it held before empties it and is
\* either the acceptance of a Start or a Clear Results.
C26_ResultsAppendOnly ==
    /\ [](pc # "none" => results_data = DeliveredResults /\ ~config_enabled)
    /\ [][~IsPrefix(results_data, results_data') =>
             /\ results_data' = <<>>
             /\ active' = active + 1 \/ clear_results_display]_vars

\* C27: a worker never holds an empty URL list, and a start_test with an empty
\* URL list leaves the results, the Start, Stop and Export controls, the
\* worker reference, the count of active runs and the worker as they were.
C27_NoRunWithoutUrls ==
    /\ [](test_worker => urls # <<>>)
    /\ [][(url_list = <<>> /\ start_test) =>
             UNCHANGED <<results_data, start_enabled, stop_enabled, export_enabled,
                         test_worker, active, worker>>]_vars

C27_Witness ==
    /\ settings.urls.items = <<>>
    /\ url_list = <<>>
    /\ results_data # <<>>
    /\ export_enabled
    /\ start_enabled
    /\ ~stop_enabled
    /\ ~test_worker

\* ---------------------------------------------------------------- summary
\* The results stored for a URL.
StoredFor(u) == SelectSeq(results_data, LAMBDA r : r.url = u)

\* C33: the summary report of the stored results has exactly one entry for
\* each URL that occurs in them (none at all for no results), the entry's
\* successful runs and errors add up to the number of results of that URL, the
\* report the export produced is this one, and the rows written from it are in
\* ascending URL order, one per URL.
C33_OneEntryPerUrl ==
    LET report == generate_summary_report(results_data)
    IN /\ results_data = <<>> => report = <<>>
       /\ DOMAIN report = { results_data[i].url : i \in DOMAIN results_data }
       /\ \A u \in DOMAIN report :
             /\ report[u].url = u
             /\ report[u].num_successful_runs + report[u].num_errors = Len(StoredFor(u))
       /\ summary # <<>> => summary = report
       /\ exported.format = "CSV" =>
             /\ Len(exported.rows) = Cardinality(DOMAIN report)
             /\ \A i, j \in DOMAIN exported.rows :
                   i < j => exported.rows[i].url < exported.rows[j].url

C33_Witness ==
    /\ exported.format = "CSV"
    /\ Len(exported.rows) = 2
    /\ results_data[1].url = 2
    /\ results_data[2].url = 1
    /\ summary[1].num_successful_runs = 1
    /\ summary[1].num_errors = 2
    /\ Len(results_data) = MaxResults

\* ------------------------------------------------------------ run numbers
\* C32: the result events of every entry of the URL list carry that URL and
\* the run numbers 1, 2, ..., k in this order, k being at most runs_per_url and
\* equal to it once the run has ended without a stop request; every result
\* event carries the configuration the worker was created with.
C32_RunNumbersAndConfig ==
    /\ \A i \in DOMAIN urls :
          LET rs == ResultsOf(i)
          IN /\ Len(rs) <= runs_per_url
             /\ \A j \in DOMAIN rs : rs[j].run = j /\ rs[j].url = urls[i]
             /\ (Ended /\ ~stopInfo.requested) => Len(rs) = runs_per_url
    /\ \A k \in DOMAIN Results :
          /\ Results[k].it \in DOMAIN urls
          /\ Results[k].config = settings
          /\ Results[k].config.runs_per_url.n = runs_per_url
          /\ Len(Results[k].config.urls.items) = Len(urls)

C32_Witness ==
    /\ Ended
    /\ urls = <<1, 1>>
    /\ runs_per_url = 2
    /\ Len(ResultsOf(1)) = 2
    /\ Len(ResultsOf(2)) = 1
    /\ SetupFailedAt(1)
    /\ stopInfo.requested
    /\ ResultsOf(2)[1].status = "Success"

\* ------------------------------------------------------- timing breakdown
\* The numeric fields of a breakdown.
BreakdownFields ==
    {"navigation_start", "fetch_start", "dns_lookup_time", "connect_time", "ttfb",
     "dom_interactive", "dom_content_loaded", "dom_complete", "load_event_start",
     "load_event_end", "total_load_from_nav_start", "dom_processing_time"}

\* C34: when the script's answer has a positive navigationStart and the
\* extraction has built the breakdown, every numeric field of the breakdown is
\* non-negative or exactly -1.
C34_BreakdownNonNegative ==
    (mpc = "return" /\ timing_data # <<>> /\ timing_data["navigationStart"] > 0) =>
        /\ DOMAIN results.navigation_timing = BreakdownFields
        /\ \A f \in BreakdownFields :
              results.navigation_timing[f] >= 0 \/ results.navigation_timing[f] = -1

\* ------------------------------------------------------------ setup_driver
\* C36: a call of setup_driver ends by returning a session or by raising
\* WebDriverException, whatever the browser name; it returns only with a
\* session, which it has not quit, and when it raises after it started a
\* session it has quit that session, exactly once; the worker holds a session
\* exactly when the call returned, and its setup error is the
\* WebDriverException and never a missing session.
C36_SessionOrSetupError ==
    /\ setup.at = "returned" => setup.driver # None /\ setup.quits = 0 /\ setup.raised = ""
    /\ setup.at = "raised" =>
          /\ setup.raised = "WebDriverException"
          /\ setup.driver # None => setup.quits = 1
          /\ setup.driver = None => setup.quits = 0
    /\ ~(Lower(setup.browser_name) \in {"chrome", "firefox"}) =>
          setup.at \in {"idle", "except_other", "raised"} /\ setup.driver = None
    /\ \A k \in DOMAIN setups :
          /\ setups[k].outcome = "ok" => setup.at = "returned" /\ k = Len(setups)
          /\ (setups[k].outcome = "failed" /\ k = setup.call) => setup.at = "raised"
    /\ pc = "fail_loop" => setup_error = "WebDriverException" /\ driver = None
    /\ Len(sessions) = Cardinality({ k \in DOMAIN setups : setups[k].outcome = "ok" })

\* C36 witness: the script injection failed on a started Chrome session, the
\* session was quit and the worker has reported the setup error.
C36_Witness ==
    /\ pc = "fail_loop"
    /\ setup.at = "raised"
    /\ setup.driver # None
    /\ setup.quits = 1
    /\ Lower(setup.browser_name) = "chrome"
    /\ setup.anti_detection

\* ------------------------------------------------------ one run per Start
\* The finished signals among the worker's signals.
DoneEvents == { k \in DOMAIN events : events[k].type = "done" }

\* C35: the worker a Start created emits finished at most once, and no two of
\* its results are for the same repetition of the same entry of the URL list:
\* run is executed once for it.
C35_RunBodyOnce ==
    /\ Cardinality(DoneEvents) <= 1
    /\ \A j, k \in DOMAIN Results :
          (Results[j].it = Results[k].it /\ Results[j].run = Results[k].run) => j = k

\* ------------------------------------------------------------- termination
\* The session setups and page measurements begun so far.
Begun == Len(setups) + measureCalls

\* C31: run emits finished in the end; the stop flag, once cleared by stop(),
\* stays so; and of the session setups and page measurements at most one is
\* begun after the first stop request: none once a check has seen the flag,
\* and the call in flight at the request (which may have passed its check
\* before the request and begun after it) is the only candidate.
C31_StopsAndFinishes ==
    /\ <>(Ended /\ LastEvent.type = "done")
    /\ [][~is_running => ~is_running']_vars
    /\ [](stopInfo.requested =>
            (Begun - stopInfo.begun) + (IF stopInfo.inCall THEN 1 ELSE 0) <= 1)
    /\ [](stoppedAt # "" => Begun = stopInfo.begun)

\* C31 witness: the stop arrived during the second measurement of a URL, and
\* run has emitted finished with more repetitions and another URL left.
C31_Witness ==
    /\ Ended
    /\ stopInfo.requested
    /\ stopInfo.inCall
    /\ stopInfo.pc = "measuring"
    /\ measureCalls = 2
    /\ Len(urls) >= 2
    /\ Len(setups) = 1
    /\ runs_per_url >= 2
====
